---- MODULE Spec2Model ----
(***************************************************************************)
(* The multi-slot upload/result store of the spreadsheets feature:         *)
(* the ngrx reducer (spreadsheetsReducer), the upload effects              *)
(* (SpreadsheetsEffects) and the slot read of the page                     *)
(* (SpreadsheetsPage.currentRawSlot).                                      *)
(*                                                                         *)
(* JavaScript arrays are 0-based; slot indices in this module are the      *)
(* 0-based indices of the source, and Nth(slots, i) reads slots[i].        *)
(* A JavaScript object is a record whose DOMAIN is the set of its keys,    *)
(* so an absent optional key (error, data, columns) is an absent field.    *)
(***************************************************************************)
EXTENDS Integers, Sequences, FiniteSets, TLC

\* ---------------------------------------------------------------- bounds
\* total number of HTTP posts of a run, and of collection replacements
MaxRequests == 3

MaxEpochs == 2

\* ------------------------------------------------------- program constants
\* The upload lanes of the reducer.  The six lanes of the source are
\* copies of one another; "raw" stands for the lanes whose effect extracts
\* the server's explanation (raw, cleaned) and "commissionRaw" for the lanes
\* whose effect prefers err.message (commission*, referral*).
Categories == {"raw", "commissionRaw"}

DetailFirstCategories == {"raw"}

RequestFailed == "Request failed"

UploadFailed == "Upload failed"

\* ------------------------------------------------------------------ inputs
FileNames == {"a.csv", "b.xlsx"}

\* What the remote ingestion service can answer with:
\* { filename, total_rows, columns, data }; total_rows is read nowhere.
Responses ==
  { [filename |-> f, columns |-> <<"A">>, data |-> <<"r1">>] : f \in FileNames }

\* A failed HTTP call, as seen by catchError: err.error is an object with a
\* string detail ("detail"), a plain string ("text") or neither ("none");
\* err.message is a string or missing.
Undefined == "<undefined>"

HttpErrors ==
  { [body |-> "detail", text |-> "Invalid file", message |-> "Http failure"],
    [body |-> "text",   text |-> "Invalid file", message |-> "Http failure"],
    [body |-> "detail", text |-> "",             message |-> Undefined],
    [body |-> "none",   text |-> Undefined,      message |-> Undefined] }

\* Indices a caller may pass to setSelected*Index.
RequestedIndices == (0 - 1) .. MaxRequests

FileLists == UNION { [1..n -> FileNames] : n \in 0..MaxRequests }

VARIABLES
  fileResults,     \* category -> FileResultSlot[]         (reducer state)
  selectedIndex,   \* category -> selected*Index           (reducer state)
  pending,         \* inner observables still subscribed inside merge(...)
  effectAlive,     \* category -> the upload effect is still subscribed
  epoch,           \* number of collection replacements so far (all lanes)
  generation,      \* category -> epoch of the last replacement of its collection
  ledger,          \* request id -> HTTP posts made and outcome actions sent
  \* SpreadsheetDataTableComponent
  data,            \* input data: the slot's rows, unfiltered
  searchTerm,      \* signal searchTerm
  sortColumn,      \* signal sortColumn (NoColumn for null)
  sortDirection,   \* signal sortDirection
  pageIndex,       \* signal pageIndex
  pageSize,        \* signal pageSize
  columnFilters,   \* signal columnFilters: column key -> Set<string>
  \* SpreadsheetsPage: the cleaned lane of the store as the page reads it
  cleanedFileResults,      \* toSignal(selectCleanedFileResults)
  selectedCleanedIndex,    \* toSignal(selectSelectedCleanedIndex)
  cleanedPending,          \* cleaned posts still subscribed
  filesForCleanedRequest,  \* private filesForCleanedRequest
  salesforceSubTab,        \* salesforceSubTab
  batch,                   \* number of uploadFile() calls so far
  \* SpreadsheetsPage: analytics
  checkedStatsTabActive,   \* signal checkedStatsTabActive
  checkedStatsLoading,     \* signal checkedStatsLoading
  checkedStatsError,       \* signal checkedStatsError (NoError for null)
  charts,                  \* the five chart signals, keyed like a cache entry
  analyticsCache,          \* Map<number, AnalyticsCacheEntry>
  analyticsPending,        \* forkJoin subscriptions still open
  posted,                  \* cleaned posts and analytics requests made so far
  served,                  \* branch the constructor effect took when it last ran
  \* SpreadsheetsPage: per-slot query state
  cleanedSearchTerms,      \* signal cleanedSearchTerms
  cleanedSortState,        \* signal cleanedSortState
  cleanedPageIndex,        \* signal cleanedPageIndex
  cleanedPageSize,         \* signal cleanedPageSize
  \* SpreadsheetsPage: the file chooser
  selectedFiles,           \* signal selectedFiles
  fileTypeError            \* signal fileTypeError (NoError for null)

storeVars == <<fileResults, selectedIndex, pending, effectAlive, epoch,
               generation, ledger>>

tableVars == <<data, searchTerm, sortColumn, sortDirection, pageIndex,
               pageSize, columnFilters>>

laneVars == <<cleanedFileResults, selectedCleanedIndex, cleanedPending,
              filesForCleanedRequest, salesforceSubTab, batch, posted>>

analyticsVars == <<checkedStatsTabActive, checkedStatsLoading, checkedStatsError,
                   charts, analyticsCache, analyticsPending, served>>

queryVars == <<cleanedSearchTerms, cleanedSortState, cleanedPageIndex,
               cleanedPageSize>>

chooserVars == <<selectedFiles, fileTypeError>>

pageVars == <<laneVars, analyticsVars, queryVars, chooserVars>>

vars == <<storeVars, tableVars, pageVars>>

\* sortColumn = null
NoColumn == "<null>"

\* pageSize = signal(25)
DefaultPageSize == 25

\* checkedStatsError = null
NoError == "<null>"

\* a chart signal holding null
NullChart == [null |-> TRUE]

\* every chart signal null
NoCharts ==
  [line |-> NullChart, bar |-> NullChart, pieRlip |-> NullChart,
   pieRap |-> NullChart, pieCompare |-> NullChart]

\* new Map()
EmptyCache == <<>>

\* The page as constructed: nothing uploaded, raw tab, no analytics.
PageIdle ==
  /\ cleanedFileResults = <<>>
  /\ selectedCleanedIndex = 0
  /\ cleanedPending = {}
  /\ filesForCleanedRequest = <<>>
  /\ salesforceSubTab = "raw"
  /\ batch = 0
  /\ checkedStatsTabActive = FALSE
  /\ checkedStatsLoading = FALSE
  /\ checkedStatsError = NoError
  /\ charts = NoCharts
  /\ analyticsCache = EmptyCache
  /\ analyticsPending = {}
  /\ posted = 0
  /\ served = "never"
  /\ cleanedSearchTerms = <<>>
  /\ cleanedSortState = <<>>
  /\ cleanedPageIndex = <<>>
  /\ cleanedPageSize = <<>>
  /\ selectedFiles = <<>>
  /\ fileTypeError = NoError

\* A table component with no rows and every signal at its initial value.
TableIdle ==
  /\ data = <<>>
  /\ searchTerm = <<>>
  /\ sortColumn = NoColumn
  /\ sortDirection = "asc"
  /\ pageIndex = 0
  /\ pageSize = DefaultPageSize
  /\ columnFilters = <<>>

\* ----------------------------------------------------------- JS helpers
\* a || b on strings
OrElse(a, b) == IF a # Undefined /\ a # "" THEN a ELSE b

\* a ?? b on strings
Nullish(a, b) == IF a # Undefined THEN a ELSE b

\* arr[i] for a 0-based index; Undefined when i addresses no element
HasIndex(slots, i) == i \in 0 .. (Len(slots) - 1)

Nth(slots, i) == slots[i + 1]

\* const next = [...arr]; next[i] = v
SetNth(slots, i, v) == [slots EXCEPT ![i + 1] = v]

\* ------------------------------------------------------------ the reducer
\* initialState: every collection empty, every selected index 0
InitialResults == [c \in Categories |-> <<>>]

InitialSelected == [c \in Categories |-> 0]

\* a variant of OnSetSlots that lists the files last to first
OnSetSlotsReversed(filenames) ==
  [i \in 1 .. Len(filenames) |->
     [filename |-> filenames[Len(filenames) + 1 - i], loading |-> TRUE]]

\* on(set*Slots): filenames.map(filename => ({ filename, loading: true }))
OnSetSlots(filenames) ==
  [i \in 1 .. Len(filenames) |-> [filename |-> filenames[i], loading |-> TRUE]]

\* a variant of OnFileSuccess without the if (next[index]) guard: assigning
\* next[length] grows the array
OnFileSuccessUnguarded(slots, index, result) ==
  LET slot == [filename |-> result.filename, loading |-> FALSE,
               data |-> result.data, columns |-> result.columns]
  IN IF HasIndex(slots, index) THEN SetNth(slots, index, slot)
     ELSE IF index = Len(slots) THEN Append(slots, slot)
     ELSE slots

\* on(*FileSuccess): if (next[index]) next[index] = { filename, loading: false,
\* data, columns }
OnFileSuccess(slots, index, result) ==
  IF HasIndex(slots, index)
  THEN SetNth(slots, index,
              [filename |-> result.filename, loading |-> FALSE,
               data |-> result.data, columns |-> result.columns])
  ELSE slots

\* a variant of OnFileError that writes into the first slot instead of the
\* slot the request was tagged with
OnFileErrorFirstSlot(slots, index, error) ==
  IF HasIndex(slots, index)
  THEN SetNth(slots, 0,
              ("loading" :> FALSE) @@ ("error" :> OrElse(error, UploadFailed))
                @@ Nth(slots, 0))
  ELSE slots

\* on(*FileError): if (next[index]) next[index] = { ...next[index],
\* loading: false, error: error || 'Upload failed' }
OnFileError(slots, index, error) ==
  IF HasIndex(slots, index)
  THEN SetNth(slots, index,
              ("loading" :> FALSE) @@ ("error" :> OrElse(error, UploadFailed))
                @@ Nth(slots, index))
  ELSE slots

\* a variant of OnSetSelectedIndex that clamps into the collection
OnSetSelectedIndexClamped(slots, index) ==
  IF index < 0 \/ Len(slots) = 0 THEN 0
  ELSE IF index > Len(slots) - 1 THEN Len(slots) - 1
  ELSE index

\* on(setSelected*Index): selected*Index: index
OnSetSelectedIndex(slots, index) == index

\* SpreadsheetsPage.currentRawSlot: slots[idx] ?? null
NoSlot == [absent |-> TRUE]

CurrentSlot(slots, idx) == IF HasIndex(slots, idx) THEN Nth(slots, idx) ELSE NoSlot

\* ------------------------------------------------------------ the effects
\* catchError of uploadRawFiles$ / uploadCleanedFiles$:
\* detail ?? err?.message ?? 'Request failed'
DetailFirstError(err) ==
  LET detail == IF err.body \in {"detail", "text"} THEN err.text ELSE Undefined
  IN Nullish(detail, Nullish(err.message, RequestFailed))

\* catchError of the commission and referral effects:
\* err?.message || err?.error?.detail || 'Request failed'
MessageFirstError(err) ==
  LET detail == IF err.body = "detail" THEN err.text ELSE Undefined
  IN OrElse(err.message, OrElse(detail, RequestFailed))

ExtractError(c, err) ==
  IF c \in DetailFirstCategories THEN DetailFirstError(err)
  ELSE MessageFirstError(err)

\* files.map((file, index) => this.http.post(...)): one request per file,
\* tagged with the index of the file in the list
RequestId(r) == [cat |-> r.cat, gen |-> r.gen, index |-> r.index]

IssueRequests(c, g, files) ==
  { [cat |-> c, gen |-> g, index |-> i - 1, file |-> files[i]] :
      i \in 1 .. Len(files) }

\* a variant of AfterOutcome in which the request stays subscribed and can
\* emit again
AfterOutcomeResubscribed(reqs, r) == reqs

\* what is left subscribed in merge(...) after request r has emitted its one
\* action and completed
AfterOutcome(reqs, r) == reqs \ {r}

\* a variant of AliveAfterError with catchError on the outer stream: the
\* replacement observable completes and the effect stops listening
AliveAfterErrorOuter(alive, c) == [alive EXCEPT ![c] = FALSE]

\* the outer stream after an inner request has failed: catchError sits on
\* the inner observable, so the failure never reaches the outer stream
AliveAfterError(alive, c) == alive

\* bookkeeping of the HTTP layer: per request, the posts made, the success
\* and error actions dispatched, and whether its lane had already seen a
\* failure when it was posted
LaneFailed(c) == \E id \in DOMAIN ledger : id.cat = c /\ ledger[id].errors > 0

Posted(ids) ==
  [id \in DOMAIN ledger \cup ids |->
     IF id \notin ids THEN ledger[id]
     ELSE IF id \in DOMAIN ledger THEN [ledger[id] EXCEPT !.posts = @ + 1]
     ELSE [posts |-> 1, successes |-> 0, errors |-> 0,
           failedBefore |-> LaneFailed(id.cat)]]

DispatchedSuccess(id) == [ledger EXCEPT ![id].successes = @ + 1]

DispatchedError(id) == [ledger EXCEPT ![id].errors = @ + 1]

Outcomes(id) == ledger[id].successes + ledger[id].errors

PendingIds == { RequestId(r) : r \in pending }

\* ----------------------------------------------------------------- Init
Init ==
  /\ fileResults = InitialResults
  /\ selectedIndex = InitialSelected
  /\ pending = {}
  /\ effectAlive = [c \in Categories |-> TRUE]
  /\ epoch = 0
  /\ generation = [c \in Categories |-> 0]
  /\ ledger = <<>>
  /\ TableIdle
  /\ PageIdle

\* -------------------------------------------------------------- actions
\* upload*Files: dispatch set*Slots, then subscribe to one post per file
UploadFiles(c, files) ==
  /\ effectAlive[c]
  /\ epoch < MaxEpochs
  /\ Cardinality(DOMAIN ledger) + Len(files) <= MaxRequests
  /\ fileResults' = [fileResults EXCEPT ![c] = OnSetSlots(files)]
  /\ selectedIndex' = [selectedIndex EXCEPT ![c] = 0]
  /\ epoch' = epoch + 1
  /\ generation' = [generation EXCEPT ![c] = epoch + 1]
  /\ pending' = pending \cup IssueRequests(c, epoch + 1, files)
  /\ ledger' = Posted({ RequestId(r) : r \in IssueRequests(c, epoch + 1, files) })
  /\ UNCHANGED <<effectAlive, tableVars, pageVars>>

\* a post answers 2xx: map(result => *FileSuccess({ index, result }))
FileSuccess(r, result) ==
  /\ r \in pending
  /\ fileResults' = [fileResults EXCEPT
                       ![r.cat] = OnFileSuccess(@, r.index, result)]
  /\ pending' = AfterOutcome(pending, r)
  /\ ledger' = DispatchedSuccess(RequestId(r))
  /\ UNCHANGED <<selectedIndex, effectAlive, epoch, generation, tableVars, pageVars>>

\* a post fails: catchError(err => of(*FileError({ index, error })))
FileError(r, err) ==
  /\ r \in pending
  /\ fileResults' = [fileResults EXCEPT
                       ![r.cat] = OnFileError(@, r.index, ExtractError(r.cat, err))]
  /\ pending' = AfterOutcome(pending, r)
  /\ effectAlive' = AliveAfterError(effectAlive, r.cat)
  /\ ledger' = DispatchedError(RequestId(r))
  /\ UNCHANGED <<selectedIndex, epoch, generation, tableVars, pageVars>>

\* setSelected*Index({ index })
SetSelectedIndex(c, index) ==
  /\ selectedIndex' = [selectedIndex EXCEPT
                         ![c] = OnSetSelectedIndex(fileResults[c], index)]
  /\ UNCHANGED <<fileResults, pending, effectAlive, epoch, generation, ledger,
               tableVars, pageVars>>

\* resetSpreadsheetsUpload: () => initialState
ResetSpreadsheetsUpload ==
  /\ epoch < MaxEpochs
  /\ fileResults' = InitialResults
  /\ selectedIndex' = InitialSelected
  /\ epoch' = epoch + 1
  /\ generation' = [c \in Categories |-> epoch + 1]
  /\ UNCHANGED <<pending, effectAlive, ledger, tableVars, pageVars>>

\* The upload lifecycle: batches, outcomes in any order, resets.  The
\* selected index is read by no reducer case and by no effect, so selection
\* is left to SelectionSpec.
Next ==
  \/ \E c \in Categories, files \in FileLists : UploadFiles(c, files)
  \/ \E r \in pending, result \in Responses : FileSuccess(r, result)
  \/ \E r \in pending, err \in HttpErrors : FileError(r, err)
  \/ ResetSpreadsheetsUpload

Spec == Init /\ [][Next]_vars

\* Every store operation, selection included; file names and failure kinds
\* do not bear on selection and are drawn from one-element sets.
SelectionFileLists == UNION { [1..n -> {"a.csv"}] : n \in 0..MaxRequests }

SelectionErrors == { e \in HttpErrors : e.body = "none" }

SelectionResponses == { res \in Responses : res.filename = "a.csv" }

SelectionNext ==
  \/ \E c \in Categories, files \in SelectionFileLists : UploadFiles(c, files)
  \/ \E r \in pending, result \in SelectionResponses : FileSuccess(r, result)
  \/ \E r \in pending, err \in SelectionErrors : FileError(r, err)
  \/ \E c \in Categories, index \in RequestedIndices : SetSelectedIndex(c, index)
  \/ ResetSpreadsheetsUpload

SelectionSpec == Init /\ [][SelectionNext]_vars

\* ------------------------------------------------------------- vocabulary
IsLoading(slot) == slot.loading

HasError(slot) == "error" \in DOMAIN slot

HasTable(slot) == {"data", "columns"} \subseteq DOMAIN slot

IsSuccess(slot) == ~slot.loading /\ HasTable(slot) /\ ~HasError(slot)

IsError(slot) == ~slot.loading /\ HasError(slot) /\ ~HasTable(slot)

Indices(slots) == 0 .. (Len(slots) - 1)

\* request r belongs to the batch that created the current collection
Current(r) == r.gen = generation[r.cat]

\* the step delivers the outcome of request r
Delivers(r) == r \in pending /\ r \notin pending'

\* the collection of lane c is not replaced by the step
Kept(c) == generation'[c] = generation[c]

\* ------------------------------------------------------------------ C1
\* C1: every request of the current batch is tagged with the index its file
\* has in the input list, and the step that delivers a request's success or
\* error changes the slot at that index and no slot at any other index.
C1_RoutedByIndex ==
  [][/\ \A c \in Categories, files \in FileLists :
          UploadFiles(c, files) =>
            \A i \in 1 .. Len(files) :
              \E r \in pending' \ pending :
                r.cat = c /\ r.index = i - 1 /\ r.file = files[i]
     /\ \A r \in pending :
          Delivers(r) =>
            /\ Len(fileResults'[r.cat]) = Len(fileResults[r.cat])
            /\ \A j \in Indices(fileResults[r.cat]) :
                 j # r.index =>
                   Nth(fileResults'[r.cat], j) = Nth(fileResults[r.cat], j)
            /\ HasIndex(fileResults[r.cat], r.index) =>
                 ~IsLoading(Nth(fileResults'[r.cat], r.index))
            /\ \A d \in Categories \ {r.cat} :
                 fileResults'[d] = fileResults[d]]_vars

\* two files, the second has failed and the first has succeeded
C1_Witness ==
  \E c \in Categories :
    /\ Len(fileResults[c]) = 2
    /\ IsSuccess(fileResults[c][1]) /\ fileResults[c][1].filename = "a.csv"
    /\ IsError(fileResults[c][2]) /\ fileResults[c][2].filename = "b.xlsx"

\* ------------------------------------------------------------------ C2
\* C2: the outcome of a request of a superseded batch (dispatched before the
\* last new batch or reset of its lane) changes no slot of the current
\* collection.
C2_StaleOutcomeIgnored ==
  [][\A r \in pending :
       (Delivers(r) /\ ~Current(r)) => fileResults'[r.cat] = fileResults[r.cat]]_vars

\* ------------------------------------------------------------------ C3
\* C3: a batch of N files replaces the lane's collection with N loading slots
\* without data and error, named after the files in input order, selects
\* index 0 and posts exactly N requests (none for N = 0).
C3_BatchCreatesLoadingSlots ==
  [][\A c \in Categories, files \in FileLists :
       UploadFiles(c, files) =>
         /\ Len(fileResults'[c]) = Len(files)
         /\ \A i \in 1 .. Len(files) :
              fileResults'[c][i] = [filename |-> files[i], loading |-> TRUE]
         /\ selectedIndex'[c] = 0
         /\ Cardinality(pending' \ pending) = Len(files)
         /\ \A d \in Categories \ {c} : fileResults'[d] = fileResults[d]]_vars

C3_Witness ==
  \E c \in Categories :
    /\ fileResults[c] = << [filename |-> "b.xlsx", loading |-> TRUE],
                           [filename |-> "a.csv", loading |-> TRUE] >>
    /\ selectedIndex[c] = 0
    /\ Cardinality({ r \in pending : r.cat = c /\ Current(r) }) = 2

\* ------------------------------------------------------------------ C4
\* C4: a slot that has left Loading keeps its status, data, columns and error
\* for as long as its collection is not replaced by a new batch or a reset.
C4_TerminalSlotFrozen ==
  [][\A c \in Categories :
       Kept(c) =>
         \A i \in Indices(fileResults[c]) :
           ~IsLoading(Nth(fileResults[c], i)) =>
             Nth(fileResults'[c], i) = Nth(fileResults[c], i)]_vars

\* ------------------------------------------------------------------ C5
\* C5: every slot that is not Loading has either an error message or columns
\* and rows, never both and never neither.
C5_ErrorXorTable ==
  \A c \in Categories :
    \A i \in Indices(fileResults[c]) :
      LET slot == Nth(fileResults[c], i)
      IN ~IsLoading(slot) => (HasError(slot) /\ ~HasTable(slot))
                               \/ (HasTable(slot) /\ ~HasError(slot))

ServerExplanation(err) ==
  IF err.body \in {"detail", "text"} /\ err.text # "" THEN err.text
  ELSE Undefined

C8_ServerExplanationShown ==
  [][\A r \in pending, err \in HttpErrors :
       (FileError(r, err) /\ HasIndex(fileResults[r.cat], r.index)) =>
         LET slot == Nth(fileResults'[r.cat], r.index)
         IN /\ ~IsLoading(slot)
            /\ HasError(slot)
            /\ slot.error \notin {"", Undefined}
            /\ ServerExplanation(err) # Undefined =>
                 slot.error = ServerExplanation(err)]_vars

\* ------------------------------------------------------------------ C9
\* C9: every request is posted exactly once, one request per file of each
\* batch, and dispatches at most one outcome action: none while it is in
\* flight and exactly one (a success or an error) once it has completed.
C9_OneRequestOneOutcome ==
  /\ \A id \in DOMAIN ledger :
       /\ ledger[id].posts = 1
       /\ Outcomes(id) = IF id \in PendingIds THEN 0 ELSE 1
  /\ \A c \in Categories :
       { id.index : id \in { x \in DOMAIN ledger :
                               x.cat = c /\ x.gen = generation[c] } }
         = Indices(fileResults[c])
  /\ Cardinality(pending) = Cardinality(PendingIds)

\* a request has failed and dispatched its one error, another is in flight
C9_Witness ==
  /\ \E id \in DOMAIN ledger : ledger[id].errors = 1 /\ ledger[id].successes = 0
  /\ \E id \in DOMAIN ledger : Outcomes(id) = 0 /\ id \in PendingIds

\* ----------------------------------------------------------------- C10
\* C10: a failure stops nothing but its own request: every other posted
\* request is still in flight or has delivered its outcome, and every
\* lane's upload effect keeps listening for later batches.
C10_FailureIsLocal ==
  /\ \A c \in Categories : effectAlive[c]
  /\ \A id \in DOMAIN ledger : Outcomes(id) = 0 => id \in PendingIds

\* a request posted after a failure in its lane has delivered a success
C10_Witness ==
  \E id \in DOMAIN ledger :
    /\ ledger[id].failedBefore
    /\ ledger[id].successes = 1
    /\ IsSuccess(Nth(fileResults[id.cat], id.index))

\* ----------------------------------------------------------------- C11
\* C11: a slot of the current collection is Loading exactly as long as its
\* own request (the one posted for its index by the batch that created the
\* collection) has not completed.
OwnRequestPending(c, i) ==
  \E r \in pending : r.cat = c /\ r.index = i /\ Current(r)

C11_LoadingWhileOwnRequestPending ==
  \A c \in Categories :
    \A i \in Indices(fileResults[c]) :
      IsLoading(Nth(fileResults[c], i)) <=> OwnRequestPending(c, i)

\* ====================================================== the data table
\* SpreadsheetDataTableComponent and the table functions of the page.
\* A JavaScript string is the sequence of its characters; a cell is a
\* string, null, or undefined (the row has no such key).
MaxRows == 3

Str(t) == [kind |-> "string", text |-> t]

Null == [kind |-> "null", text |-> <<>>]

Absent == [kind |-> "undefined", text |-> <<>>]

\* inputs columns and filterableColumns
Columns == <<"A", "B">>

FilterableColumns == <<"B">>

PAGE_SIZE_OPTIONS == <<10, 25, 50, 100>>

\* Rows the server may return for the two columns.
SampleRows ==
  { [A |-> Str(<<"2">>),           B |-> Str(<<"x">>)],
    [A |-> Str(<<"1", "0">>),      B |-> Str(<<"y">>)],
    [A |-> Str(<<"n", "/", "a">>), B |-> Str(<<"z">>)],
    [A |-> Str(<<"1", "0">>),      B |-> Str(<<"x">>)],
    [A |-> Absent,                 B |-> Str(<<"x">>)],
    [A |-> Str(<<>>),              B |-> Str(<<"y">>)],
    [A |-> Null,                   B |-> Str(<<"z">>)] }

DataSets == UNION { [1..n -> SampleRows] : n \in 0..MaxRows }

SearchInputs == { <<>>, <<"x">> }

FilterValueInputs == { <<"x">>, <<"y">> }

PageSizeInputs == { 10, 25, 7 }

PageIndexInputs == { 0 - 1, 0, 1 }

Range(seq) == { seq[k] : k \in 1..Len(seq) }

Max(S) == CHOOSE m \in S : \A n \in S : n <= m

\* ---------------------------------------------------- JS conversions
Digits == <<"0", "1", "2", "3", "4", "5", "6", "7", "8", "9">>

IsDigit(ch) == ch \in Range(Digits)

DigitValue(ch) == (CHOOSE k \in 1..Len(Digits) : Digits[k] = ch) - 1

RECURSIVE Decimal(_)
Decimal(t) ==
  IF t = <<>> THEN 0
  ELSE 10 * Decimal(SubSeq(t, 1, Len(t) - 1)) + DigitValue(t[Len(t)])

NaN == [nan |-> TRUE, n |-> 0]

Num(n) == [nan |-> FALSE, n |-> n]

\* Number(v): null and '' are 0, undefined is NaN, a string of decimal
\* digits is its value, any other string of the alphabet used here is NaN
Number(v) ==
  IF v.kind = "undefined" THEN NaN
  ELSE IF v.kind = "null" \/ v.text = <<>> THEN Num(0)
  ELSE IF \A k \in 1..Len(v.text) : IsDigit(v.text[k]) THEN Num(Decimal(v.text))
  ELSE NaN

\* String(v ?? '')
StringOrEmpty(v) == IF v.kind = "string" THEN v.text ELSE <<>>

Lower(ch) ==
  CASE ch = "A" -> "a" [] ch = "N" -> "n" [] ch = "X" -> "x"
    [] ch = "Y" -> "y" [] ch = "Z" -> "z" [] ch = "C" -> "c"
    [] ch = "L" -> "l" [] ch = "S" -> "s" [] ch = "V" -> "v" [] OTHER -> ch

ToLowerCase(t) == [k \in 1..Len(t) |-> Lower(t[k])]

RECURSIVE Trim(_)
Trim(t) ==
  IF t = <<>> THEN t
  ELSE IF Head(t) = " " THEN Trim(Tail(t))
  ELSE IF t[Len(t)] = " " THEN Trim(SubSeq(t, 1, Len(t) - 1))
  ELSE t

\* s.includes(sub)
Includes(s, sub) ==
  \E k \in 0..(Len(s) - Len(sub)) : SubSeq(s, k + 1, k + Len(sub)) = sub

\* Primary collation weight: punctuation, then digits, then letters; upper
\* and lower case weigh the same (sensitivity: 'base').
CollationOrder ==
  <<" ", "/", "0", "1", "2", "3", "4", "5", "6", "7", "8", "9",
    "a", "n", "x", "y", "z">>

Weight(ch) == CHOOSE k \in 1..Len(CollationOrder) : CollationOrder[k] = Lower(ch)

\* sa.localeCompare(sb, undefined, { sensitivity: 'base' })
RECURSIVE LocaleCompare(_, _)
LocaleCompare(sa, sb) ==
  IF sa = <<>> /\ sb = <<>> THEN 0
  ELSE IF sa = <<>> THEN 0 - 1
  ELSE IF sb = <<>> THEN 1
  ELSE IF Weight(Head(sa)) < Weight(Head(sb)) THEN 0 - 1
  ELSE IF Weight(Head(sa)) > Weight(Head(sb)) THEN 1
  ELSE LocaleCompare(Tail(sa), Tail(sb))

\* --------------------------------------------------- table functions
IsColumnNumericLenient(rows, columnKey) == TRUE

\* isColumnNumeric(data, columnKey)
IsColumnNumeric(rows, columnKey) ==
  \A k \in 1..Len(rows) :
    LET v == rows[k][columnKey] IN
      \/ v.kind = "null" \/ v.kind = "undefined" \/ v.text = <<>>
      \/ ~Number(v).nan

\* isFilterable(col); the column keys used here are their own lower case
IsFilterable(col) == \E k \in 1..Len(FilterableColumns) : FilterableColumns[k] = col

FilteredDataCaseSensitive(raw, cols, term, filters) ==
  LET search == ToLowerCase(Trim(term))
      Found(row) == \E c \in Range(cols) : Includes(StringOrEmpty(row[c]), search)
      Selected(row) ==
        \A c \in Range(cols) :
          (IsFilterable(c) /\ c \in DOMAIN filters /\ filters[c] # {})
            => StringOrEmpty(row[c]) \in filters[c]
      searched == IF search # <<>> THEN SelectSeq(raw, Found) ELSE raw
  IN  IF raw = <<>> \/ cols = <<>> THEN <<>> ELSE SelectSeq(searched, Selected)

FilteredDataEmptySetExcludes(raw, cols, term, filters) ==
  LET search == ToLowerCase(Trim(term))
      Found(row) ==
        \E c \in Range(cols) : Includes(ToLowerCase(StringOrEmpty(row[c])), search)
      Selected(row) ==
        \A c \in Range(cols) :
          (IsFilterable(c) /\ c \in DOMAIN filters)
            => StringOrEmpty(row[c]) \in filters[c]
      searched == IF search # <<>> THEN SelectSeq(raw, Found) ELSE raw
  IN  IF raw = <<>> \/ cols = <<>> THEN <<>> ELSE SelectSeq(searched, Selected)

FilteredDataSearchOrFilter(raw, cols, term, filters) ==
  LET search == ToLowerCase(Trim(term))
      Found(row) ==
        \E c \in Range(cols) : Includes(ToLowerCase(StringOrEmpty(row[c])), search)
      Selected(row) ==
        \A c \in Range(cols) :
          (IsFilterable(c) /\ c \in DOMAIN filters /\ filters[c] # {})
            => StringOrEmpty(row[c]) \in filters[c]
      Shown(row) == (search # <<>> /\ Found(row)) \/ Selected(row)
  IN  IF raw = <<>> \/ cols = <<>> THEN <<>> ELSE SelectSeq(raw, Shown)

\* filteredData: the search over every column, then the column filters
FilteredData(raw, cols, term, filters) ==
  LET search == ToLowerCase(Trim(term))
      Found(row) ==
        \E c \in Range(cols) : Includes(ToLowerCase(StringOrEmpty(row[c])), search)
      Selected(row) ==
        \A c \in Range(cols) :
          (IsFilterable(c) /\ c \in DOMAIN filters /\ filters[c] # {})
            => StringOrEmpty(row[c]) \in filters[c]
      searched == IF search # <<>> THEN SelectSeq(raw, Found) ELSE raw
  IN  IF raw = <<>> \/ cols = <<>> THEN <<>> ELSE SelectSeq(searched, Selected)

\* filteredData, one step at a time: rows.filter(row => cols.some(...))
ApplySearch(rows, cols, term) ==
  LET search == ToLowerCase(Trim(term))
      Found(row) ==
        \E c \in Range(cols) : Includes(ToLowerCase(StringOrEmpty(row[c])), search)
  IN  IF search # <<>> THEN SelectSeq(rows, Found) ELSE rows

\* rows.filter(row => selected.has(String(row[col] ?? ''))) when selected.size > 0
ApplyFilter(rows, col, selected) ==
  LET Member(row) == StringOrEmpty(row[col]) \in selected
  IN  IF selected # {} THEN SelectSeq(rows, Member) ELSE rows

CompareNaNFirst(a, b, col, numeric, mult) ==
  LET na == Number(a[col])
      nb == Number(b[col])
  IN  IF numeric
      THEN IF na.nan /\ nb.nan THEN 0
           ELSE IF na.nan THEN 0 - 1
           ELSE IF nb.nan THEN 1
           ELSE mult * (na.n - nb.n)
      ELSE mult * LocaleCompare(StringOrEmpty(a[col]), StringOrEmpty(b[col]))

\* the comparator handed to sort
Compare(a, b, col, numeric, mult) ==
  LET na == Number(a[col])
      nb == Number(b[col])
  IN  IF numeric
      THEN IF na.nan /\ nb.nan THEN 0
           ELSE IF na.nan THEN 1
           ELSE IF nb.nan THEN 0 - 1
           ELSE mult * (na.n - nb.n)
      ELSE mult * LocaleCompare(StringOrEmpty(a[col]), StringOrEmpty(b[col]))

InsertionPointBeforeEqual(sorted, x, col, numeric, mult) ==
  LET less == { j \in 1..Len(sorted) :
                  Compare(sorted[j], x, col, numeric, mult) < 0 }
  IN  IF less = {} THEN 0 ELSE Max(less)

\* [...rows].sort(compare): a stable sort; each row goes behind the last row
\* already placed that does not compare greater than it
InsertionPoint(sorted, x, col, numeric, mult) ==
  LET notGreater == { j \in 1..Len(sorted) :
                        Compare(sorted[j], x, col, numeric, mult) <= 0 }
  IN  IF notGreater = {} THEN 0 ELSE Max(notGreater)

RECURSIVE Sort(_, _, _, _)
Sort(rows, col, numeric, mult) ==
  IF rows = <<>> THEN <<>>
  ELSE LET sorted == Sort(SubSeq(rows, 1, Len(rows) - 1), col, numeric, mult)
           x == rows[Len(rows)]
           p == InsertionPoint(sorted, x, col, numeric, mult)
       IN  SubSeq(sorted, 1, p) \o <<x>> \o SubSeq(sorted, p + 1, Len(sorted))

Mult(dir) == IF dir = "asc" THEN 1 ELSE 0 - 1

SortedDataByVisibleRows(raw, cols, term, filters, col, dir) ==
  LET rows == FilteredData(raw, cols, term, filters)
  IN  IF col = NoColumn \/ col \notin Range(cols) \/ rows = <<>> THEN rows
      ELSE Sort(rows, col, IsColumnNumeric(rows, col), Mult(dir))

Reverse(seq) == [k \in 1..Len(seq) |-> seq[Len(seq) + 1 - k]]

SortedDataReversingDescending(raw, cols, term, filters, col, dir) ==
  LET rows == FilteredData(raw, cols, term, filters)
      ascending == Sort(rows, col, IsColumnNumeric(raw, col), 1)
  IN  IF col = NoColumn \/ col \notin Range(cols) \/ rows = <<>> THEN rows
      ELSE IF dir = "asc" THEN ascending ELSE Reverse(ascending)

\* sortedData
SortedData(raw, cols, term, filters, col, dir) ==
  LET rows == FilteredData(raw, cols, term, filters)
  IN  IF col = NoColumn \/ col \notin Range(cols) \/ rows = <<>> THEN rows
      ELSE Sort(rows, col, IsColumnNumeric(raw, col), Mult(dir))

\* totalPages
TotalPages(total, size) ==
  IF size <= 0 THEN 0 ELSE (total + size - 1) \div size

\* the computed signals read in a state
filteredData == FilteredData(data, Columns, searchTerm, columnFilters)

sortedData ==
  SortedData(data, Columns, searchTerm, columnFilters, sortColumn, sortDirection)

totalPages == TotalPages(Len(filteredData), pageSize)

\* ------------------------------------------------------ table actions
\* setSearch(value)
SetSearch(value) ==
  /\ searchTerm' = value
  /\ pageIndex' = 0
  /\ UNCHANGED <<data, sortColumn, sortDirection, pageSize, columnFilters, storeVars, pageVars>>

\* toggleSort(columnKey)
ToggleSort(columnKey) ==
  /\ IF IsFilterable(columnKey)
     THEN UNCHANGED <<sortColumn, sortDirection, pageIndex>>
     ELSE /\ sortColumn' = IF sortColumn = columnKey /\ sortDirection # "asc"
                           THEN NoColumn ELSE columnKey
          /\ sortDirection' = IF sortColumn = columnKey /\ sortDirection = "asc"
                              THEN "desc" ELSE "asc"
          /\ pageIndex' = 0
  /\ UNCHANGED <<data, searchTerm, pageSize, columnFilters, storeVars, pageVars>>

\* toggleFilterValue(col, value)
ToggleFilterValue(col, value) ==
  LET set == IF col \in DOMAIN columnFilters THEN columnFilters[col] ELSE {}
      next == IF value \in set THEN set \ {value} ELSE set \cup {value}
  IN  /\ columnFilters' = (col :> next) @@ columnFilters
      /\ pageIndex' = 0
      /\ UNCHANGED <<data, searchTerm, sortColumn, sortDirection, pageSize, storeVars, pageVars>>

\* clearFilter(col)
ClearFilter(col) ==
  /\ columnFilters' = [c \in DOMAIN columnFilters \ {col} |-> columnFilters[c]]
  /\ pageIndex' = 0
  /\ UNCHANGED <<data, searchTerm, sortColumn, sortDirection, pageSize, storeVars, pageVars>>

\* setPageIndex(idx)
SetPageIndex(idx) ==
  /\ pageIndex' = Max({0, IF idx < totalPages - 1 THEN idx ELSE totalPages - 1})
  /\ UNCHANGED <<data, searchTerm, sortColumn, sortDirection, pageSize,
                 columnFilters, storeVars, pageVars>>

\* setPageSize(size)
SetPageSize(size) ==
  LET valid == size > 0 /\ size \in Range(PAGE_SIZE_OPTIONS)
  IN  /\ pageSize' = IF valid THEN size
                     ELSE IF pageSize \in Range(PAGE_SIZE_OPTIONS) THEN pageSize
                     ELSE PAGE_SIZE_OPTIONS[1]
      /\ pageIndex' = 0
      /\ UNCHANGED <<data, searchTerm, sortColumn, sortDirection, columnFilters,
                     storeVars, pageVars>>

\* The component is created with the rows of one slot and defaults.
TableInit ==
  /\ fileResults = InitialResults
  /\ selectedIndex = InitialSelected
  /\ pending = {}
  /\ effectAlive = [c \in Categories |-> TRUE]
  /\ epoch = 0
  /\ generation = [c \in Categories |-> 0]
  /\ ledger = <<>>
  /\ data \in DataSets
  /\ searchTerm = <<>>
  /\ sortColumn = NoColumn
  /\ sortDirection = "asc"
  /\ pageIndex = 0
  /\ pageSize = DefaultPageSize
  /\ columnFilters = <<>>
  /\ PageIdle

TableNext ==
  \/ \E value \in SearchInputs : SetSearch(value)
  \/ \E columnKey \in Range(Columns) : ToggleSort(columnKey)
  \/ \E col \in Range(FilterableColumns), value \in FilterValueInputs :
       ToggleFilterValue(col, value)
  \/ \E col \in Range(FilterableColumns) : ClearFilter(col)
  \/ \E idx \in PageIndexInputs : SetPageIndex(idx)
  \/ \E size \in PageSizeInputs : SetPageSize(size)

TableSpec == TableInit /\ [][TableNext]_vars

\* ----------------------------------------------------------------- C18
ColumnValues(rows, col) == [k \in 1..Len(rows) |-> rows[k][col]]

Parseable(row, col) == ~Number(row[col]).nan

\* C18: when the sort column is numeric, ascending order shows
\* non-decreasing parsed values, rows whose value does not parse come after
\* every row whose value parses in both directions, and two rows whose
\* values do not parse compare equal.
C18_NumericSortOrder ==
  (sortColumn # NoColumn /\ IsColumnNumeric(data, sortColumn)) =>
    /\ \A i, j \in 1..Len(sortedData) :
         i < j =>
           /\ Parseable(sortedData[j], sortColumn)
                => Parseable(sortedData[i], sortColumn)
           /\ (sortDirection = "asc" /\ Parseable(sortedData[j], sortColumn))
                => Number(sortedData[i][sortColumn]).n
                     <= Number(sortedData[j][sortColumn]).n
    /\ \A a, b \in Range(data) :
         (~Parseable(a, sortColumn) /\ ~Parseable(b, sortColumn))
           => Compare(a, b, sortColumn, TRUE, Mult(sortDirection)) = 0

C18_Witness ==
  /\ sortColumn = "A"
  /\ sortDirection = "desc"
  /\ IsColumnNumeric(data, "A")
  /\ Len(filteredData) = MaxRows
  /\ ~Parseable(filteredData[1], "A")
  /\ Number(filteredData[2]["A"]).n < Number(filteredData[3]["A"]).n
  /\ sortedData # filteredData

\* ----------------------------------------------------------------- C19
ExampleRows ==
  << [A |-> Str(<<"2">>),           B |-> Str(<<"x">>)],
     [A |-> Str(<<"1", "0">>),      B |-> Str(<<"y">>)],
     [A |-> Str(<<"n", "/", "a">>), B |-> Str(<<"z">>)] >>

ExampleSorted ==
  /\ data = ExampleRows
  /\ searchTerm = <<>>
  /\ \A c \in DOMAIN columnFilters : columnFilters[c] = {}
  /\ sortColumn = "A"

NonEmpty(v) == v.kind = "string" /\ v.text # <<>>

NumericByRule(rows, col) ==
  \A k \in 1..Len(rows) : NonEmpty(rows[k][col]) => ~Number(rows[k][col]).nan

MaxBatches == 2

\* cleaned posts and analytics requests in one run
MaxPosts == 5

\* valid selections of files for uploadFile()
PageFileLists == { <<"a.csv", "b.xlsx">> }

CleanedErrors == { e \in HttpErrors : e.body = "none" }

AnalyticsErrors == { e \in HttpErrors : e.body = "none" }

\* The cleaning endpoint answers a file with that file's rows; the files of
\* different batches and positions are taken to differ.
CleanedResult(r) ==
  [filename |-> r.file, columns |-> <<"A">>,
   data |-> << [batch |-> r.batch, file |-> r.index] >>]

\* a variant of HasRows that takes every answered slot to have rows
HasRowsWhenAnswered(slot) == "data" \in DOMAIN slot

\* !slot?.data?.length || !slot?.columns?.length, negated
HasRows(slot) ==
  /\ "data" \in DOMAIN slot
  /\ Len(slot.data) > 0
  /\ Len(slot.columns) > 0

currentCleanedSlot == CurrentSlot(cleanedFileResults, selectedCleanedIndex)

\* The analytics endpoints are functions of the posted rows: a value is
\* named by the label it belongs to and the rows it was computed from.
LineLabels == <<"p", "q">>

AnalyticsResponse(rows) ==
  [line |-> [labels |-> LineLabels,
             values |-> [k \in 1..Len(LineLabels) |->
                           [of |-> LineLabels[k], rows |-> rows]]],
   bar |-> [chart |-> "bar", rows |-> rows],
   pieRlip |-> [slices |-> [chart |-> "pieRlip", rows |-> rows]],
   pieRap |-> [slices |-> [chart |-> "pieRap", rows |-> rows]],
   pieCompare |-> [slices |-> [chart |-> "pieCompare", rows |-> rows]]]

\* err?.error?.detail || err?.message || 'Analytics request failed'
AnalyticsErrorMessage(err) ==
  OrElse(OrElse(IF err.body = "detail" THEN err.text ELSE Undefined, err.message),
         "Analytics request failed")

\* shuffleArray: for i from the last index down to 1, swap arr[i] with
\* arr[j] for a random j in 0..i; every sequence of choices is possible
Swap(arr, i, j) == [arr EXCEPT ![i + 1] = arr[j + 1], ![j + 1] = arr[i + 1]]

RECURSIVE ShuffleFrom(_, _)
ShuffleFrom(arr, i) ==
  IF i < 1 THEN {arr}
  ELSE UNION { ShuffleFrom(Swap(arr, i, j), i - 1) : j \in 0..i }

ShuffleArray(arr) == ShuffleFrom(arr, Len(arr) - 1)

Pairs(line) ==
  [k \in 1..Len(line.labels) |-> [label |-> line.labels[k], value |-> line.values[k]]]

\* the values lineEntry can take in the next handler
LineEntries(line) ==
  IF Len(line.labels) > 0 /\ Len(line.values) > 0
  THEN { [labels |-> [k \in 1..Len(p) |-> p[k].label],
          values |-> [k \in 1..Len(p) |-> p[k].value]] : p \in ShuffleArray(Pairs(line)) }
  ELSE {line}

CacheEntry(res, lineEntry) ==
  [line |-> lineEntry, bar |-> res.bar, pieRlip |-> res.pieRlip.slices,
   pieRap |-> res.pieRap.slices, pieCompare |-> res.pieCompare.slices]

\* the analytics fields a subscriber of forkJoin writes
analyticsState ==
  [cache |-> analyticsCache, charts |-> charts,
   loading |-> checkedStatsLoading, error |-> checkedStatsError]

\* subscribe next
OnAnalyticsNext(st, fileIndex, entry) ==
  [cache |-> (fileIndex :> entry) @@ st.cache, charts |-> entry,
   loading |-> FALSE, error |-> st.error]

OnAnalyticsErrorEvicting(st, fileIndex, message) ==
  [cache |-> [i \in DOMAIN st.cache \ {fileIndex} |-> st.cache[i]],
   charts |-> st.charts, loading |-> FALSE, error |-> message]

\* subscribe error
OnAnalyticsError(st, fileIndex, message) ==
  [cache |-> st.cache, charts |-> st.charts, loading |-> FALSE, error |-> message]

EffectBranchAlwaysLoads(active, slot, idx, cache) ==
  IF ~active THEN "inactive"
  ELSE IF ~HasRows(slot) THEN "empty"
  ELSE "load"

\* the branch the constructor effect takes
EffectBranch(active, slot, idx, cache) ==
  IF ~active THEN "inactive"
  ELSE IF ~HasRows(slot) THEN "empty"
  ELSE IF idx \in DOMAIN cache THEN "cache"
  ELSE "load"

\* what a handler leaves in the chart signals before the effect runs
AsLeft == [charts |-> charts, loading |-> checkedStatsLoading, error |-> checkedStatsError]

\* clearAnalyticsCacheAndCharts
Cleared == [charts |-> NoCharts, loading |-> FALSE, error |-> NoError]

\* The effect is scheduled when a signal it read has a new value: the tab
\* flag, the selected index, or the selected slot object (slotReplaced).
EffectDue(slotReplaced) ==
  /\ checkedStatsTabActive'
  /\ \/ ~checkedStatsTabActive
     \/ selectedCleanedIndex' # selectedCleanedIndex
     \/ slotReplaced

\* One more forkJoin subscription for (fileIndex, data); subscriptions for
\* the same index and rows are told apart by a copy number.
NewRequest(fileIndex, rows, columns) ==
  LET same == { q \in analyticsPending : q.fileIndex = fileIndex /\ q.data = rows }
      copy == CHOOSE n \in 0..Cardinality(same) : \A q \in same : q.copy # n
  IN  [copy |-> copy, fileIndex |-> fileIndex, data |-> rows, columns |-> columns]

\* The constructor effect, run at the end of the handler that scheduled it
\* on the values the signals then have; base is what the handler itself
\* left in the chart signals and before the number of posts it has made.
Effect(due, base, before) ==
  LET idx == selectedCleanedIndex'
      slot == CurrentSlot(cleanedFileResults', idx)
      branch == EffectBranch(checkedStatsTabActive', slot, idx, analyticsCache')
  IN  IF ~due \/ branch = "inactive"
      THEN /\ charts' = base.charts
           /\ checkedStatsLoading' = base.loading
           /\ checkedStatsError' = base.error
           /\ posted' = before
           /\ UNCHANGED <<analyticsPending, served>>
      ELSE IF branch = "empty"
      THEN /\ charts' = NoCharts
           /\ checkedStatsLoading' = base.loading
           /\ checkedStatsError' = NoError
           /\ served' = branch
           /\ posted' = before
           /\ UNCHANGED analyticsPending
      ELSE IF branch = "cache"
      THEN /\ charts' = analyticsCache'[idx]
           /\ checkedStatsLoading' = FALSE
           /\ checkedStatsError' = NoError
           /\ served' = branch
           /\ posted' = before
           /\ UNCHANGED analyticsPending
      ELSE /\ before < MaxPosts
           /\ charts' = base.charts
           /\ checkedStatsLoading' = TRUE
           /\ checkedStatsError' = NoError
           /\ served' = branch
           /\ posted' = before + 1
           /\ analyticsPending' = analyticsPending \cup
                { NewRequest(idx, slot.data, slot.columns) }

\* a variant of CleanedDue without the test for an empty cleaned collection
CleanedDueWheneverFiles == Len(filesForCleanedRequest) > 0

\* filesForCleanedRequest.length > 0 && cleanedFileResults().length === 0
CleanedDue == Len(filesForCleanedRequest) > 0 /\ Len(cleanedFileResults) = 0

PostsIfDue == posted + (IF CleanedDue THEN Len(filesForCleanedRequest) ELSE 0)

\* dispatch uploadCleanedFiles when due: setCleanedSlots, one post per file
UploadCleanedIfDue ==
  IF CleanedDue
  THEN /\ posted + Len(filesForCleanedRequest) <= MaxPosts
       /\ cleanedFileResults' = OnSetSlots(filesForCleanedRequest)
       /\ selectedCleanedIndex' = 0
       /\ cleanedPending' = cleanedPending \cup
            { [index |-> i - 1, batch |-> batch, file |-> filesForCleanedRequest[i]] :
                i \in 1..Len(filesForCleanedRequest) }
  ELSE UNCHANGED <<cleanedFileResults, selectedCleanedIndex, cleanedPending>>

\* ------------------------------------------------------- page actions
\* uploadFile() on the salesforce tab with a valid selection
UploadFile(files) ==
  /\ batch < MaxBatches
  /\ filesForCleanedRequest' = files
  /\ analyticsCache' = EmptyCache
  /\ cleanedFileResults' = <<>>
  /\ selectedCleanedIndex' = 0
  /\ salesforceSubTab' = "raw"
  /\ batch' = batch + 1
  /\ selectedFiles' = <<>>
  /\ fileTypeError' = NoError
  /\ UNCHANGED <<cleanedPending, checkedStatsTabActive, queryVars, storeVars, tableVars>>
  /\ Effect(EffectDue(currentCleanedSlot # NoSlot), Cleared, posted)

\* onRawDataTabClick()
OnRawDataTabClick ==
  /\ salesforceSubTab' = "raw"
  /\ checkedStatsTabActive' = FALSE
  /\ UNCHANGED <<cleanedFileResults, selectedCleanedIndex, cleanedPending,
                 filesForCleanedRequest, batch, analyticsCache, queryVars,
                 storeVars, tableVars, chooserVars>>
  /\ Effect(FALSE, AsLeft, posted)

\* onCleanedDataTabClick()
OnCleanedDataTabClick ==
  /\ salesforceSubTab' = "cleanedData"
  /\ checkedStatsTabActive' = FALSE
  /\ UploadCleanedIfDue
  /\ UNCHANGED <<filesForCleanedRequest, batch, analyticsCache, queryVars,
                 storeVars, tableVars, chooserVars>>
  /\ Effect(FALSE, AsLeft, PostsIfDue)

\* onCheckedStatsTabClick()
OnCheckedStatsTabClick ==
  /\ salesforceSubTab' = "checkedStats"
  /\ checkedStatsTabActive' = TRUE
  /\ UploadCleanedIfDue
  /\ UNCHANGED <<filesForCleanedRequest, batch, analyticsCache, queryVars,
                 storeVars, tableVars, chooserVars>>
  /\ Effect(EffectDue(CleanedDue), AsLeft, PostsIfDue)

\* setCleanedSubTab(index) / setCleanedSubTabForCheckedStats(index)
SetCleanedSubTab(index) ==
  /\ selectedCleanedIndex' = index
  /\ UNCHANGED <<cleanedFileResults, cleanedPending, filesForCleanedRequest,
                 salesforceSubTab, batch, checkedStatsTabActive, analyticsCache,
                 queryVars, storeVars, tableVars, chooserVars>>
  /\ Effect(EffectDue(FALSE), AsLeft, posted)

\* a cleaned post answers 2xx: cleanedFileSuccess({ index, result })
CleanedFileSuccess(r) ==
  /\ r \in cleanedPending
  /\ cleanedFileResults' = OnFileSuccess(cleanedFileResults, r.index, CleanedResult(r))
  /\ cleanedPending' = cleanedPending \ {r}
  /\ UNCHANGED <<selectedCleanedIndex, filesForCleanedRequest, salesforceSubTab,
                 batch, checkedStatsTabActive, analyticsCache, queryVars,
                 storeVars, tableVars, chooserVars>>
  /\ Effect(EffectDue(HasIndex(cleanedFileResults, r.index)
                        /\ r.index = selectedCleanedIndex), AsLeft, posted)

\* a cleaned post fails: cleanedFileError({ index, error })
CleanedFileError(r, err) ==
  /\ r \in cleanedPending
  /\ cleanedFileResults' = OnFileError(cleanedFileResults, r.index, DetailFirstError(err))
  /\ cleanedPending' = cleanedPending \ {r}
  /\ UNCHANGED <<selectedCleanedIndex, filesForCleanedRequest, salesforceSubTab,
                 batch, checkedStatsTabActive, analyticsCache, queryVars,
                 storeVars, tableVars, chooserVars>>
  /\ Effect(EffectDue(HasIndex(cleanedFileResults, r.index)
                        /\ r.index = selectedCleanedIndex), AsLeft, posted)

\* forkJoin emits: loadCheckedStatsCharts subscribe next
AnalyticsSuccess(req, lineEntry) ==
  LET res == AnalyticsResponse(req.data)
      st == OnAnalyticsNext(analyticsState, req.fileIndex, CacheEntry(res, lineEntry))
  IN  /\ req \in analyticsPending
      /\ lineEntry \in LineEntries(res.line)
      /\ analyticsPending' = analyticsPending \ {req}
      /\ analyticsCache' = st.cache
      /\ charts' = st.charts
      /\ checkedStatsLoading' = st.loading
      /\ checkedStatsError' = st.error
      /\ UNCHANGED <<laneVars, checkedStatsTabActive, served,
                     queryVars, storeVars, tableVars, chooserVars>>

\* forkJoin fails: loadCheckedStatsCharts subscribe error
AnalyticsError(req, err) ==
  LET st == OnAnalyticsError(analyticsState, req.fileIndex, AnalyticsErrorMessage(err))
  IN  /\ req \in analyticsPending
      /\ analyticsPending' = analyticsPending \ {req}
      /\ analyticsCache' = st.cache
      /\ charts' = st.charts
      /\ checkedStatsLoading' = st.loading
      /\ checkedStatsError' = st.error
      /\ UNCHANGED <<laneVars, checkedStatsTabActive, served,
                     queryVars, storeVars, tableVars, chooserVars>>

\* Uploads at any time, tabs, sub-tabs, cleaned answers and analytics
\* outcomes in any order.  A cleaned post that fails leaves a slot without
\* rows, which the effect treats like a slot still loading; failures of
\* cleaned posts are left to SettledSpec.
PageNext ==
  \/ \E files \in PageFileLists : UploadFile(files)
  \/ OnRawDataTabClick
  \/ OnCleanedDataTabClick
  \/ OnCheckedStatsTabClick
  \/ \E index \in Indices(cleanedFileResults) : SetCleanedSubTab(index)
  \/ \E r \in cleanedPending : CleanedFileSuccess(r)
  \/ \E req \in analyticsPending :
       \E lineEntry \in LineEntries(AnalyticsResponse(req.data).line) :
         AnalyticsSuccess(req, lineEntry)
  \/ \E req \in analyticsPending, err \in AnalyticsErrors : AnalyticsError(req, err)

PageSpec == Init /\ [][PageNext]_vars

\* The same page with a user who uploads again only after every cleaned
\* post of the batch before has been answered.
SettledNext ==
  \/ \E files \in PageFileLists : cleanedPending = {} /\ UploadFile(files)
  \/ OnRawDataTabClick
  \/ OnCleanedDataTabClick
  \/ OnCheckedStatsTabClick
  \/ \E index \in Indices(cleanedFileResults) : SetCleanedSubTab(index)
  \/ \E r \in cleanedPending : CleanedFileSuccess(r)
  \/ \E r \in cleanedPending, err \in CleanedErrors : CleanedFileError(r, err)
  \/ \E req \in analyticsPending :
       \E lineEntry \in LineEntries(AnalyticsResponse(req.data).line) :
         AnalyticsSuccess(req, lineEntry)
  \/ \E req \in analyticsPending, err \in AnalyticsErrors : AnalyticsError(req, err)

SettledSpec == Init /\ [][SettledNext]_vars

\* ----------------------------------------------------------------- C12
RowsBatch(rows) == rows[1].batch

\* the stats pane shows charts for a slot that holds rows of the current batch
ShowsCurrentBatchSlot ==
  /\ checkedStatsTabActive
  /\ salesforceSubTab = "checkedStats"
  /\ HasRows(currentCleanedSlot)
  /\ RowsBatch(currentCleanedSlot.data) = batch

\* C12: a chart displayed for a slot of the current batch, from the cache
\* or from a response, is never one computed from rows of an earlier batch.
C12_NoStaleAnalytics ==
  (ShowsCurrentBatchSlot /\ charts.bar # NullChart)
    => RowsBatch(charts.bar.rows) = batch

\* ----------------------------------------------------------------- C13
ViewChanged ==
  \/ checkedStatsTabActive' # checkedStatsTabActive
  \/ selectedCleanedIndex' # selectedCleanedIndex
  \/ currentCleanedSlot' # currentCleanedSlot

\* C13: when the stats view turns to a slot whose analytics are in the
\* cache, the charts shown are the cached entry and no request is made.
C13_ServedFromCache ==
  [][ ( /\ ViewChanged
        /\ checkedStatsTabActive'
        /\ HasRows(currentCleanedSlot')
        /\ analyticsCache' = analyticsCache
        /\ selectedCleanedIndex' \in DOMAIN analyticsCache )
      => /\ analyticsPending' \subseteq analyticsPending
         /\ posted' = posted
         /\ charts' = analyticsCache[selectedCleanedIndex'] ]_vars

C13_Witness ==
  /\ served = "cache"
  /\ checkedStatsTabActive
  /\ selectedCleanedIndex \in DOMAIN analyticsCache
  /\ charts = analyticsCache[selectedCleanedIndex]
  /\ analyticsPending = {}

\* ----------------------------------------------------------------- C14
\* C14: an entry leaves the cache only when the whole cache is cleared, an
\* entry is written only by the success of a request for that index, and a
\* failure changes nothing but the error message and the loading flag.
C14_CacheWrittenOnlyBySuccess ==
  [][ /\ \A i \in DOMAIN analyticsCache :
           i \notin DOMAIN analyticsCache' => analyticsCache' = EmptyCache
      /\ \A i \in DOMAIN analyticsCache' :
           (i \notin DOMAIN analyticsCache \/ analyticsCache'[i] # analyticsCache[i])
             => \E req \in analyticsPending \ analyticsPending' :
                  /\ req.fileIndex = i
                  /\ \E lineEntry \in LineEntries(AnalyticsResponse(req.data).line) :
                       AnalyticsSuccess(req, lineEntry)
      /\ \A req \in analyticsPending, err \in AnalyticsErrors :
           AnalyticsError(req, err)
             => /\ analyticsCache' = analyticsCache
                /\ charts' = charts
                /\ checkedStatsError' = AnalyticsErrorMessage(err)
                /\ ~checkedStatsLoading'
                /\ UNCHANGED <<laneVars, queryVars, checkedStatsTabActive>> ]_vars

C14_Witness ==
  /\ checkedStatsError \notin {NoError}
  /\ DOMAIN analyticsCache # {}
  /\ analyticsPending = {}

\* ----------------------------------------------------------------- C15
\* C15: a cached line series pairs each label with the server's value for
\* it, and the order cached for a slot's rows is never replaced by another.
C15_LineOrderChosenOnce ==
  [][ \A i \in DOMAIN analyticsCache' :
        /\ \A k \in 1..Len(analyticsCache'[i].line.labels) :
             analyticsCache'[i].line.values[k].of = analyticsCache'[i].line.labels[k]
        /\ Range(analyticsCache'[i].line.labels) = Range(LineLabels)
        /\ (i \in DOMAIN analyticsCache /\ analyticsCache'[i].bar = analyticsCache[i].bar)
             => analyticsCache'[i].line = analyticsCache[i].line ]_vars

\* ------------------------------------------------- per-slot query state
QuerySearchInputs == { <<"x">> }

QuerySortColumns == { "A" }

QueryPageInputs == { 1 }

QueryPageSizeInputs == { 10 }

DefaultSort == [columnKey |-> NoColumn, direction |-> "asc"]

\* arr[idx] ?? fallback
ReadAt(arr, idx, fallback) == IF HasIndex(arr, idx) THEN Nth(arr, idx) ELSE fallback

WriteAtFirst(arr, idx, pad, value) ==
  LET padded == arr \o [k \in 1..(idx + 1 - Len(arr)) |-> pad]
  IN  [padded EXCEPT ![1] = value]

\* next = [...arr]; while (next.length <= idx) next.push(pad); next[idx] = value
WriteAt(arr, idx, pad, value) ==
  LET padded == arr \o [k \in 1..(idx + 1 - Len(arr)) |-> pad]
  IN  [padded EXCEPT ![idx + 1] = value]

\* setCleanedSearch(value)
SetCleanedSearch(value) ==
  /\ cleanedSearchTerms' = WriteAt(cleanedSearchTerms, selectedCleanedIndex, <<>>, value)
  /\ UNCHANGED <<cleanedSortState, cleanedPageIndex, cleanedPageSize, laneVars,
                 analyticsVars, storeVars, tableVars, chooserVars>>

\* setCleanedSort(columnKey)
SetCleanedSort(columnKey) ==
  LET prev == ReadAt(cleanedSortState, selectedCleanedIndex, DefaultSort)
      next == [columnKey |-> columnKey,
               direction |-> IF prev.columnKey = columnKey /\ prev.direction = "asc"
                             THEN "desc" ELSE "asc"]
  IN  /\ cleanedSortState' = WriteAt(cleanedSortState, selectedCleanedIndex, DefaultSort, next)
      /\ UNCHANGED <<cleanedSearchTerms, cleanedPageIndex, cleanedPageSize, laneVars,
                     analyticsVars, storeVars, tableVars, chooserVars>>

\* setCleanedPageIndex(page)
SetCleanedPageIndex(page) ==
  /\ cleanedPageIndex' = WriteAt(cleanedPageIndex, selectedCleanedIndex, 0, Max({0, page}))
  /\ UNCHANGED <<cleanedSearchTerms, cleanedSortState, cleanedPageSize, laneVars,
                 analyticsVars, storeVars, tableVars, chooserVars>>

\* setCleanedPageSize(size)
SetCleanedPageSize(size) ==
  /\ cleanedPageSize' = WriteAt(cleanedPageSize, selectedCleanedIndex, DefaultPageSize, size)
  /\ cleanedPageIndex' = WriteAt(cleanedPageIndex, selectedCleanedIndex, 0, 0)
  /\ UNCHANGED <<cleanedSearchTerms, cleanedSortState, laneVars, analyticsVars,
                 storeVars, tableVars, chooserVars>>

\* the controls of a cleaned table are used while the selected slot shows one
TableShown == salesforceSubTab = "cleanedData" /\ HasRows(currentCleanedSlot)

\* The cleaned tables and their controls, without the stats pane.
QueryNext ==
  \/ \E files \in PageFileLists : UploadFile(files)
  \/ OnCleanedDataTabClick
  \/ \E r \in cleanedPending : CleanedFileSuccess(r)
  \/ \E index \in Indices(cleanedFileResults) : SetCleanedSubTab(index)
  \/ \E value \in QuerySearchInputs : TableShown /\ SetCleanedSearch(value)
  \/ \E columnKey \in QuerySortColumns : TableShown /\ SetCleanedSort(columnKey)
  \/ \E page \in QueryPageInputs : TableShown /\ SetCleanedPageIndex(page)
  \/ \E size \in QueryPageSizeInputs : TableShown /\ SetCleanedPageSize(size)

QuerySpec == Init /\ [][QueryNext]_vars

\* what the getters return while slot index j is selected
QueryState(j) ==
  [search |-> ReadAt(cleanedSearchTerms, j, <<>>),
   sort |-> ReadAt(cleanedSortState, j, DefaultSort),
   pageIndex |-> ReadAt(cleanedPageIndex, j, 0),
   pageSize |-> ReadAt(cleanedPageSize, j, DefaultPageSize)]

DefaultQuery ==
  [search |-> <<>>, sort |-> DefaultSort, pageIndex |-> 0, pageSize |-> DefaultPageSize]

SlotIndices == 0 .. (Max({ Len(files) : files \in PageFileLists }) - 1)

\* ----------------------------------------------------------------- C16
\* C16: every slot index starts with the default query state; a step
\* changes the query state of no index other than the selected one, and a
\* step that changes the selected index changes no query state at all.
C16_QueryStatePerSlot ==
  /\ \A j \in SlotIndices : QueryState(j) = DefaultQuery
  /\ [][ /\ \A j \in SlotIndices \ {selectedCleanedIndex} :
              QueryState(j)' = QueryState(j)
         /\ selectedCleanedIndex' # selectedCleanedIndex
              => \A j \in SlotIndices : QueryState(j)' = QueryState(j) ]_vars

C16_Witness ==
  /\ selectedCleanedIndex = 0
  /\ QueryState(0).search = <<>>
  /\ QueryState(0).pageSize = DefaultPageSize
  /\ QueryState(1).search = <<"x">>
  /\ QueryState(1).sort.direction = "desc"
  /\ QueryState(1).pageSize # DefaultPageSize

\* ----------------------------------------------------------------- C17
\* C17: when a new upload batch starts, the query state of every slot
\* index is back at its defaults.
C17_QueryResetWithBatch ==
  [][ batch' # batch => \A j \in SlotIndices : QueryState(j)' = DefaultQuery ]_vars

\* ----------------------------------------------------------------- C21
\* a row object together with its position in the rows handed to sort
Tagged(rows) == [k \in 1..Len(rows) |-> ("pos" :> k) @@ rows[k]]

Untagged(rows) ==
  [k \in 1..Len(rows) |-> [c \in DOMAIN rows[k] \ {"pos"} |-> rows[k][c]]]

\* a key that is none of the columns
OtherColumn == "C"

\* C21: the sorted rows are the filtered rows rearranged; two rows whose
\* keys compare equal stay in their original relative order, ascending and
\* descending; with no sort column, or one that is not a column of the
\* table, the filtered rows come back in input order.
C21_StableSort ==
  LET numeric == IsColumnNumeric(data, sortColumn)
      mult == Mult(sortDirection)
      placed == Sort(Tagged(filteredData), sortColumn, numeric, mult)
  IN  /\ (sortColumn # NoColumn /\ filteredData # <<>>) =>
           /\ Untagged(placed) = sortedData
           /\ Len(sortedData) = Len(filteredData)
           /\ { placed[k].pos : k \in 1..Len(placed) } = 1..Len(filteredData)
           /\ \A k \in 1..Len(placed) : sortedData[k] = filteredData[placed[k].pos]
           /\ \A i, j \in 1..Len(placed) :
                (i < j /\ Compare(placed[i], placed[j], sortColumn, numeric, mult) = 0)
                  => placed[i].pos < placed[j].pos
      /\ \A col \in {NoColumn, OtherColumn}, dir \in {"asc", "desc"} :
           SortedData(data, Columns, searchTerm, columnFilters, col, dir) = filteredData

C21_Witness ==
  /\ sortColumn = "A"
  /\ sortDirection = "desc"
  /\ Len(filteredData) = MaxRows
  /\ filteredData[1] # filteredData[2]
  /\ Compare(filteredData[1], filteredData[2], "A",
             IsColumnNumeric(data, "A"), Mult("desc")) = 0
  /\ sortedData # filteredData
  /\ sortedData # Reverse(filteredData)

\* ============================================== search and column filters
\* The table component with rows that exercise case folding, substrings,
\* null and missing cells; only the search box and the filter dropdown.
FilterSampleRows ==
  { [A |-> Str(<<"a">>),           B |-> Str(<<"X">>)],
    [A |-> Str(<<"2">>),           B |-> Str(<<"x">>)],
    [A |-> Null,                   B |-> Str(<<"y">>)],
    [A |-> Absent,                 B |-> Str(<<>>)],
    [A |-> Str(<<"n", "/", "a">>), B |-> Str(<<"x", "y">>)] }

FilterDataSets == UNION { [1..n -> FilterSampleRows] : n \in 0..MaxRows }

FilterSearchInputs == { <<>>, <<" ">>, <<" ", "X">>, <<"y", " ">>, <<"a">> }

FilterInit ==
  /\ fileResults = InitialResults
  /\ selectedIndex = InitialSelected
  /\ pending = {}
  /\ effectAlive = [c \in Categories |-> TRUE]
  /\ epoch = 0
  /\ generation = [c \in Categories |-> 0]
  /\ ledger = <<>>
  /\ data \in FilterDataSets
  /\ searchTerm = <<>>
  /\ sortColumn = NoColumn
  /\ sortDirection = "asc"
  /\ pageIndex = 0
  /\ pageSize = DefaultPageSize
  /\ columnFilters = <<>>
  /\ PageIdle

FilterNext ==
  \/ \E value \in FilterSearchInputs : SetSearch(value)
  \/ \E col \in Range(FilterableColumns), value \in FilterValueInputs :
       ToggleFilterValue(col, value)
  \/ \E col \in Range(FilterableColumns) : ClearFilter(col)

FilterSpec == FilterInit /\ [][FilterNext]_vars

\* the rows the search alone keeps
searchedData == FilteredData(data, Columns, searchTerm, <<>>)

\* the selected values of a column; none when the column has no entry
SelectedValues(col) ==
  IF col \in DOMAIN columnFilters THEN columnFilters[col] ELSE {}

\* ----------------------------------------------------------------- C22
\* text contains the folded term at some offset, letter case ignored
ContainsFolded(text, term) ==
  \E k \in 0..(Len(text) - Len(term)) :
    \A n \in 1..Len(term) : Lower(text[k + n]) = term[n]

C23_ColumnFiltersKeepMembers ==
  LET Constrained == { c \in DOMAIN columnFilters : columnFilters[c] # {} }
      Keeps(row) == \A c \in Constrained : StringOrEmpty(row[c]) \in columnFilters[c]
  IN  /\ filteredData = SelectSeq(searchedData, Keeps)
      /\ Constrained = {} => filteredData = searchedData

C23_Witness ==
  /\ SelectedValues("B") = { <<"x">> }
  /\ searchTerm = <<>>
  /\ Len(data) = MaxRows
  /\ Len(filteredData) = 1
  /\ data[1]["B"] = Str(<<"X">>)
  /\ data[2]["B"] = Str(<<"x", "y">>)

\* ----------------------------------------------------------------- C30
\* the values a filter on the column can select among the rows
ValuesOf(rows, col) == { StringOrEmpty(rows[k][col]) : k \in 1..Len(rows) }

\* C30: the shown rows are the same whether the search is applied before
\* or after the column filter, and are the rows that pass both tests in one
\* pass; filters on two different columns give the same rows in either
\* order.
C30_SearchAndFiltersCommute ==
  LET selected == SelectedValues("B")
      term == ToLowerCase(Trim(searchTerm))
      PassesBoth(row) ==
        /\ term = <<>> \/ \E c \in Range(Columns) :
                             ContainsFolded(StringOrEmpty(row[c]), term)
        /\ selected = {} \/ StringOrEmpty(row["B"]) \in selected
  IN  /\ filteredData = ApplyFilter(ApplySearch(data, Columns, searchTerm), "B", selected)
      /\ filteredData = ApplySearch(ApplyFilter(data, "B", selected), Columns, searchTerm)
      /\ filteredData = SelectSeq(data, PassesBoth)
      /\ \A sa \in SUBSET ValuesOf(data, "A"), sb \in SUBSET ValuesOf(data, "B") :
           ApplyFilter(ApplyFilter(data, "A", sa), "B", sb)
             = ApplyFilter(ApplyFilter(data, "B", sb), "A", sa)

C30_Witness ==
  /\ SelectedValues("B") = { <<"x">>, <<"y">> }
  /\ searchTerm = <<"y", " ">>
  /\ Len(data) = MaxRows
  /\ ApplySearch(data, Columns, searchTerm) # data
  /\ ApplyFilter(data, "B", SelectedValues("B")) # data
  /\ ApplySearch(data, Columns, searchTerm) # ApplyFilter(data, "B", SelectedValues("B"))
  /\ Len(filteredData) = 1

\* ============================================================= paging
\* The table component with enough rows for several pages. The parent
\* binds the rows of the shown slot to the data input and may rebind it.
MaxPagedRows == 95

Min(S) == CHOOSE m \in S : \A n \in S : m <= n

\* String(n) for a natural number
RECURSIVE ToDigits(_)
ToDigits(n) ==
  IF n < 10 THEN <<Digits[n + 1]>>
  ELSE ToDigits(n \div 10) \o <<Digits[(n % 10) + 1]>>

PagedRows(n) == [k \in 1..n |-> [A |-> Str(ToDigits(k)), B |-> Str(<<"x">>)]]

PagedDataSets == { PagedRows(n) : n \in 0..MaxPagedRows }

PagedIndexInputs == (0 - 1)..(MaxPagedRows \div 10 + 1)

\* page sizes a pager can be asked to use: the offered ones and one that is not
PagingSizes == Range(PAGE_SIZE_OPTIONS) \cup {7}

\* rows.slice(start, end) for 0 <= start
Slice(rows, start, end) ==
  LET from == Min({start, Len(rows)})
      to == Min({Max({end, from}), Len(rows)})
  IN  [k \in 1..(to - from) |-> rows[from + k]]

ClampedPageIndexAsRequested(pages, idx) == idx

\* clampedPageIndex
ClampedPageIndex(pages, idx) == Min({Max({0, idx}), Max({0, pages - 1})})

\* paginatedData
PaginatedData(rows, size, idx) == Slice(rows, idx * size, idx * size + size)

PageNumbersAll(total, current) == [i \in 1..total |-> i - 1]

\* the window around the current page on every page, near the ends too
PageNumbersWindow(total, current) ==
  IF total <= 7 THEN [i \in 1..total |-> i - 1]
  ELSE <<0>> \o <<0 - 1>> \o [i \in 1..3 |-> current - 1 + (i - 1)]
         \o <<0 - 1>> \o <<total - 1>>

\* pageNumbers
PageNumbers(total, current) ==
  IF total <= 7 THEN [i \in 1..total |-> i - 1]
  ELSE IF current <= 3
    THEN [i \in 1..5 |-> i - 1] \o <<0 - 1>> \o <<total - 1>>
  ELSE IF current >= total - 4
    THEN <<0>> \o <<0 - 1>> \o [i \in 1..5 |-> total - 5 + (i - 1)]
  ELSE <<0>> \o <<0 - 1>> \o [i \in 1..3 |-> current - 1 + (i - 1)]
         \o <<0 - 1>> \o <<total - 1>>

\* the computed signals read in a state
clampedPageIndex == ClampedPageIndex(totalPages, pageIndex)

paginatedData == PaginatedData(sortedData, pageSize, clampedPageIndex)

pageNumbers == PageNumbers(totalPages, clampedPageIndex)

\* the data input is bound to other rows
SetDataInput(rows) ==
  /\ data' = rows
  /\ UNCHANGED <<searchTerm, sortColumn, sortDirection, pageIndex, pageSize,
                 columnFilters, storeVars, pageVars>>

PagingInit ==
  /\ fileResults = InitialResults
  /\ selectedIndex = InitialSelected
  /\ pending = {}
  /\ effectAlive = [c \in Categories |-> TRUE]
  /\ epoch = 0
  /\ generation = [c \in Categories |-> 0]
  /\ ledger = <<>>
  /\ data \in PagedDataSets
  /\ searchTerm = <<>>
  /\ sortColumn = NoColumn
  /\ sortDirection = "asc"
  /\ pageIndex = 0
  /\ pageSize = DefaultPageSize
  /\ columnFilters = <<>>
  /\ PageIdle

PagingNext ==
  \/ \E rows \in PagedDataSets : SetDataInput(rows)
  \/ \E idx \in PagedIndexInputs : SetPageIndex(idx)
  \/ \E size \in PageSizeInputs : SetPageSize(size)

PagingSpec == PagingInit /\ [][PagingNext]_vars

\* ----------------------------------------------------------------- C24
RECURSIVE PagesUpTo(_, _, _)
PagesUpTo(rows, size, n) ==
  IF n = 0 THEN <<>>
  ELSE PagesUpTo(rows, size, n - 1) \o PaginatedData(rows, size, n - 1)

\* C24: for the shown rows, every page size above 0 and every requested
\* page index, in range or not: the number of pages is the row count divided
\* by the page size, rounded up; the effective index is the requested one
\* brought into 0..pages-1 (0 without pages); a page has at most page-size
\* rows; the pages in order make up the shown rows. 23 rows in pages of 10
\* are 3 pages, index 5 becomes 2, and that page has 3 rows.
C24_Pagination ==
  LET count == Len(sortedData)
  IN  /\ \A size \in PagingSizes :
           LET pages == TotalPages(count, size)
           IN  /\ pages * size >= count
               /\ count > 0 => (pages - 1) * size < count
               /\ count = 0 => pages = 0
               /\ \A idx \in (0 - 2)..(pages + 2) :
                    LET effective == ClampedPageIndex(pages, idx)
                    IN  /\ effective \in 0..Max({0, pages - 1})
                        /\ idx \in 0..(pages - 1) => effective = idx
                        /\ idx < 0 => effective = 0
                        /\ (idx >= pages /\ pages > 0) => effective = pages - 1
                        /\ Len(PaginatedData(sortedData, size, effective)) <= size
               /\ PagesUpTo(sortedData, size, pages) = sortedData
      /\ clampedPageIndex \in 0..Max({0, totalPages - 1})
      /\ Len(paginatedData) <= pageSize
      /\ count = 23 =>
           /\ TotalPages(count, 10) = 3
           /\ ClampedPageIndex(3, 5) = 2
           /\ Len(PaginatedData(sortedData, 10, 2)) = 3

C24_Witness ==
  /\ Len(sortedData) = 23
  /\ pageSize = 10
  /\ pageIndex = 5
  /\ totalPages = 3
  /\ clampedPageIndex = 2
  /\ Len(paginatedData) = 3
  /\ paginatedData[1] = sortedData[21]

\* ----------------------------------------------------------------- C25
Ellipsis == 0 - 1

\* C25: up to 7 pages the pager lists every page index; above that it
\* lists the first five, an ellipsis and the last while the current page is
\* at most 3; the first, an ellipsis and the last five when the current page
\* is one of the last four; otherwise the first, an ellipsis, the current
\* page with its two neighbours, an ellipsis and the last. The ellipsis is -1.
C25_PageNumberList ==
  LET total == totalPages
      current == clampedPageIndex
      last == total - 1
  IN  /\ total <= 7 => pageNumbers = [i \in 1..total |-> i - 1]
      /\ (total > 7 /\ current <= 3)
           => pageNumbers = <<0, 1, 2, 3, 4, Ellipsis, last>>
      /\ (total > 7 /\ current > 3 /\ current >= total - 4)
           => pageNumbers = <<0, Ellipsis, last - 4, last - 3, last - 2, last - 1, last>>
      /\ (total > 7 /\ current > 3 /\ current < total - 4)
           => pageNumbers = <<0, Ellipsis, current - 1, current, current + 1,
                              Ellipsis, last>>

C25_Witness ==
  /\ totalPages = 10
  /\ clampedPageIndex = 5
  /\ pageNumbers = <<0, Ellipsis, 4, 5, 6, Ellipsis, 9>>

\* ----------------------------------------------------------------- C29
\* the pipeline applied to its own output as the rows of a slot
reappliedData ==
  SortedData(sortedData, Columns, searchTerm, columnFilters, sortColumn, sortDirection)

\* C29 as stated: applying the same search, filters and sort to the rows
\* the pipeline produced yields the same rows in the same order.
C29_PipelineIdempotent == reappliedData = sortedData

\* C29 amended: the same holds when there is no sort column or when the
\* sort column is numeric for the produced rows exactly when it is numeric
\* for the slot's rows.
C29_IdempotentWhenModeKept ==
  (\/ sortColumn = NoColumn
   \/ IsColumnNumeric(sortedData, sortColumn) = IsColumnNumeric(data, sortColumn))
    => reappliedData = sortedData

C29_Witness ==
  /\ sortColumn = "A"
  /\ IsColumnNumeric(sortedData, "A") = IsColumnNumeric(data, "A")
  /\ filteredData # data
  /\ Len(filteredData) > 1
  /\ sortedData # filteredData

\* ===================================== the controls of the cleaned tables
\* The page's own table controls on the first slot, with page sizes the
\* handler can be handed.
ControlPageSizeInputs == { 10, 7, 0 }

ControlsNext ==
  \/ \E files \in PageFileLists : UploadFile(files)
  \/ OnCleanedDataTabClick
  \/ \E r \in cleanedPending : CleanedFileSuccess(r)
  \/ \E value \in QuerySearchInputs : TableShown /\ SetCleanedSearch(value)
  \/ \E columnKey \in QuerySortColumns : TableShown /\ SetCleanedSort(columnKey)
  \/ \E page \in QueryPageInputs : TableShown /\ SetCleanedPageIndex(page)
  \/ \E size \in ControlPageSizeInputs : TableShown /\ SetCleanedPageSize(size)

ControlsSpec == Init /\ [][ControlsNext]_vars

\* ----------------------------------------------------------------- C26
\* C26: a step that changes the sort of a slot index either puts another
\* column at ascending, or turns the sorted column from ascending to
\* descending, or turns a descending column back to unsorted.
C26_TriStateSortCycle ==
  [][ \A j \in SlotIndices :
        LET prev == QueryState(j).sort
            next == QueryState(j)'.sort
        IN  next # prev =>
              \/ /\ next.columnKey # prev.columnKey
                 /\ next.columnKey # NoColumn
                 /\ next.direction = "asc"
              \/ /\ next.columnKey = prev.columnKey
                 /\ prev.direction = "asc"
                 /\ next.direction = "desc"
              \/ /\ prev.columnKey # NoColumn
                 /\ prev.direction = "desc"
                 /\ next = DefaultSort ]_vars

\* ----------------------------------------------------------------- C27
\* C27: a step that changes the search term or the sort of a slot index
\* leaves the page index of that slot index at 0.
C27_QueryChangeResetsPage ==
  [][ \A j \in SlotIndices :
        (\/ QueryState(j)'.search # QueryState(j).search
         \/ QueryState(j)'.sort # QueryState(j).sort)
          => QueryState(j)'.pageIndex = 0 ]_vars

\* ----------------------------------------------------------------- C28
\* C28: the page size of every slot index is one of the supported sizes
\* in every state.
C28_PageSizeSupported ==
  \A j \in SlotIndices : QueryState(j).pageSize \in Range(PAGE_SIZE_OPTIONS)

\* ============================================== reading the sorted rows
\* The template reads sortedData(); the computed sorts with
\* [...rows].sort(...), and rows is the data array itself when neither the
\* search nor a filter is active.
DataAfterSortInPlace(raw, cols, term, filters, col, dir) ==
  LET rows == FilteredData(raw, cols, term, filters)
      aliased ==
        /\ ToLowerCase(Trim(term)) = <<>>
        /\ \A c \in Range(cols) :
             ~(IsFilterable(c) /\ c \in DOMAIN filters /\ filters[c] # {})
  IN  IF col = NoColumn \/ col \notin Range(cols) \/ rows = <<>> THEN raw
      ELSE IF aliased THEN Sort(raw, col, IsColumnNumeric(raw, col), Mult(dir))
      ELSE raw

\* the data array after sortedData has run: the copy is sorted, not the array
DataAfterSort(raw, cols, term, filters, col, dir) == raw

ReadSortedData ==
  /\ data' = DataAfterSort(data, Columns, searchTerm, columnFilters,
                           sortColumn, sortDirection)
  /\ UNCHANGED <<searchTerm, sortColumn, sortDirection, pageIndex, pageSize,
                 columnFilters, storeVars, pageVars>>

RenderNext ==
  \/ TableNext
  \/ ReadSortedData

RenderSpec == TableInit /\ [][RenderNext]_vars

\* ----------------------------------------------------------------- C31
\* C31: no step of the table changes the rows it was given, and a step
\* that computes the view changes no part of the query; so the view without
\* a sort column is the filtered rows in the order they had before the step,
\* whatever was sorted earlier.
C31_ViewLeavesInputs ==
  [][ /\ data' = data
      /\ ReadSortedData =>
           UNCHANGED <<searchTerm, sortColumn, sortDirection, pageIndex,
                       pageSize, columnFilters>>
      /\ sortColumn' = NoColumn =>
           sortedData' = FilteredData(data, Columns, searchTerm', columnFilters') ]_vars

C31_Witness ==
  /\ sortColumn = "A"
  /\ sortDirection = "desc"
  /\ searchTerm = <<>>
  /\ columnFilters = <<>>
  /\ Len(data) = MaxRows
  /\ sortedData # data

\* ----------------------------------------------------------------- C35
\* the collection and the selected index of category c are as before the step
CategoryKept(c) ==
  /\ fileResults'[c] = fileResults[c]
  /\ selectedIndex'[c] = selectedIndex[c]

\* C35: a step of the store changes the collection and the selected index
\* of at most one category.
C35_OtherCategoriesUntouched ==
  [][ \E c \in Categories : \A o \in Categories \ {c} : CategoryKept(o) ]_vars

\* ----------------------------------------------------------------- C36
\* indices that address no slot of the collection
OutOfRange(slots) == { 0 - 1, Len(slots), Len(slots) + 1 }

\* C36: a success or an error for an index that addresses no slot leaves
\* every collection and every selected index as they were; this holds of the
\* outcomes delivered to a collection that was emptied or replaced by a
\* shorter one, and of the two reducer cases for a negative index too.
C36_OutcomeWithoutSlotIgnored ==
  [][ /\ \A r \in pending :
           (Delivers(r) /\ ~HasIndex(fileResults[r.cat], r.index))
             => /\ fileResults' = fileResults
                /\ selectedIndex' = selectedIndex
      /\ \A c \in Categories : \A index \in OutOfRange(fileResults[c]) :
           /\ \A result \in Responses :
                OnFileSuccess(fileResults[c], index, result) = fileResults[c]
           /\ \A err \in HttpErrors :
                OnFileError(fileResults[c], index, ExtractError(c, err))
                  = fileResults[c] ]_vars

C36_Witness ==
  \E id \in DOMAIN ledger :
    /\ Outcomes(id) = 1
    /\ id.gen # generation[id.cat]
    /\ fileResults[id.cat] # <<>>
    /\ ~HasIndex(fileResults[id.cat], id.index)
    /\ \A i \in Indices(fileResults[id.cat]) : IsLoading(Nth(fileResults[id.cat], i))

\* ----------------------------------------------------------------- C39
\* the largest page count of the lists examined beside the pager's own
MaxListedPages == 16

\* the shape required of a page-number list of more than 7 pages
WellFormedPageList(list, total, current) ==
  /\ Len(list) = 7
  /\ list[1] = 0
  /\ list[7] = total - 1
  /\ \E i \in 1..7 : list[i] = current
  /\ \A i \in 1..7 : list[i] # Ellipsis => list[i] \in 0..(total - 1)
  /\ \A i, j \in 1..7 :
       (i < j /\ list[i] # Ellipsis /\ list[j] # Ellipsis) => list[i] < list[j]
  /\ \A i \in 1..7 :
       list[i] = Ellipsis
         => /\ i \in 2..6
            /\ list[i - 1] # Ellipsis
            /\ list[i + 1] # Ellipsis
            /\ list[i + 1] - list[i - 1] >= 2

\* C39: with more than 7 pages the pager's list has exactly 7 entries,
\* begins with page 0, ends with the last page, holds the current page, has
\* its page entries strictly increasing and in range, and every ellipsis
\* stands between two listed pages at least 2 apart; for the pager's own
\* state and for every page count up to MaxListedPages with every effective
\* current page.
C39_LongPageListWellFormed ==
  /\ totalPages > 7 => WellFormedPageList(pageNumbers, totalPages, clampedPageIndex)
  /\ \A total \in 8..MaxListedPages : \A current \in 0..(total - 1) :
       WellFormedPageList(PageNumbers(total, current), total, current)

C39_Witness ==
  /\ totalPages = 10
  /\ clampedPageIndex = 6
  /\ pageNumbers = <<0, Ellipsis, 5, 6, 7, 8, 9>>

\* ----------------------------------------------------------------- C40
\* C40: in a sort of a numeric column no row whose value is missing (null,
\* the empty string, or no such key) stands before a row that holds a number,
\* in either direction.
C40_MissingAfterNumbers ==
  (sortColumn # NoColumn /\ IsColumnNumeric(data, sortColumn)) =>
    \A i, j \in 1..Len(sortedData) :
      (i < j /\ NonEmpty(sortedData[j][sortColumn]))
        => NonEmpty(sortedData[i][sortColumn])

\* ----------------------------------------------------------------- C34
\* C34: while the stats tab is active, the outcome of an analytics request
\* made for a slot of the current batch other than the selected one leaves
\* the displayed charts as they are.
C34_ChartsOfSelectedSlot ==
  [][ \A req \in analyticsPending :
        ( /\ req \notin analyticsPending'
          /\ checkedStatsTabActive
          /\ RowsBatch(req.data) = batch
          /\ req.fileIndex # selectedCleanedIndex )
          => charts' = charts ]_vars

\* ----------------------------------------------------------------- C37
\* the cleaned posts the step makes
NewCleanedPosts == cleanedPending' \ cleanedPending

\* C37: a step that gives the empty cleaned collection its slots happens
\* only once a raw batch exists, creates one loading slot and one post per
\* file of that batch, named and indexed in the order of the batch's files;
\* once the cleaned collection of a batch has slots, no tab click or other
\* step of that batch posts a cleaned file again or puts a slot back to
\* loading.
C37_CleanedBatchStartedOnce ==
  [][ /\ (cleanedFileResults = <<>> /\ cleanedFileResults' # <<>>) =>
           /\ batch > 0
           /\ batch' = batch
           /\ cleanedFileResults' = OnSetSlots(filesForCleanedRequest)
           /\ NewCleanedPosts =
                { [index |-> i - 1, batch |-> batch, file |-> filesForCleanedRequest[i]] :
                    i \in 1..Len(filesForCleanedRequest) }
      /\ (cleanedFileResults # <<>> /\ batch' = batch) =>
           /\ NewCleanedPosts = {}
           /\ posted' <= posted + 1
           /\ Len(cleanedFileResults') = Len(cleanedFileResults)
           /\ \A i \in 1..Len(cleanedFileResults) :
                IsLoading(cleanedFileResults'[i]) => IsLoading(cleanedFileResults[i])
      /\ batch = 0 => (NewCleanedPosts = {} /\ cleanedFileResults' = <<>>) ]_vars

C37_Witness ==
  /\ batch = 1
  /\ salesforceSubTab = "cleanedData"
  /\ Len(cleanedFileResults) = 2
  /\ \A i \in 1..2 : HasTable(cleanedFileResults[i])
  /\ DOMAIN analyticsCache = {0, 1}
  /\ cleanedPending = {}

\* ----------------------------------------------------------------- C38
\* Rows whose filterable column holds a value as typed into the sheet, with
\* and without blanks around it.
DropdownSampleRows ==
  { [A |-> Str(<<"1">>), B |-> Str(<<"x">>)],
    [A |-> Str(<<"2">>), B |-> Str(<<" ", "x">>)],
    [A |-> Str(<<"3">>), B |-> Str(<<"y", " ">>)],
    [A |-> Str(<<"4">>), B |-> Null],
    [A |-> Str(<<"5">>), B |-> Str(<<>>)] }

DropdownDataSets == UNION { [1..n -> DropdownSampleRows] : n \in 0..MaxRows }

\* the Set after the first k rows, in insertion order
RECURSIVE CollectedValues(_, _, _)
CollectedValues(rows, col, k) ==
  IF k = 0 THEN <<>>
  ELSE LET before == CollectedValues(rows, col, k - 1)
           v == rows[k][col]
       IN  IF v.kind = "string" /\ v.text # <<>> /\ Trim(v.text) \notin Range(before)
           THEN Append(before, Trim(v.text))
           ELSE before

\* Array.sort with localeCompare of base sensitivity; the sort is stable
RECURSIVE SortValues(_)
SortValues(values) ==
  IF values = <<>> THEN <<>>
  ELSE LET init == SortValues(SubSeq(values, 1, Len(values) - 1))
           x == values[Len(values)]
           p == Cardinality({ j \in 1..Len(init) : LocaleCompare(init[j], x) <= 0 })
       IN  SubSeq(init, 1, p) \o <<x>> \o SubSeq(init, p + 1, Len(init))

\* getUniqueValues(col)
GetUniqueValues(rows, col) == SortValues(CollectedValues(rows, col, Len(rows)))

DropdownInit ==
  /\ fileResults = InitialResults
  /\ selectedIndex = InitialSelected
  /\ pending = {}
  /\ effectAlive = [c \in Categories |-> TRUE]
  /\ epoch = 0
  /\ generation = [c \in Categories |-> 0]
  /\ ledger = <<>>
  /\ data \in DropdownDataSets
  /\ searchTerm = <<>>
  /\ sortColumn = NoColumn
  /\ sortDirection = "asc"
  /\ pageIndex = 0
  /\ pageSize = DefaultPageSize
  /\ columnFilters = <<>>
  /\ PageIdle

\* The filter dropdown: the user ticks and unticks the values it offers,
\* clears the filter, and types into the search box.
DropdownNext ==
  \/ \E col \in Range(FilterableColumns) :
       \E value \in Range(GetUniqueValues(data, col)) : ToggleFilterValue(col, value)
  \/ \E col \in Range(FilterableColumns) : ClearFilter(col)
  \/ \E value \in SearchInputs : SetSearch(value)

DropdownSpec == DropdownInit /\ [][DropdownNext]_vars

\* the rows from which getUniqueValues collected the value
CollectedFrom(rows, col, value) ==
  LET Source(row) ==
        /\ row[col].kind = "string"
        /\ row[col].text # <<>>
        /\ Trim(row[col].text) = value
  IN  SelectSeq(rows, Source)

\* C38: with an empty search, a filterable column whose only selected value
\* is one the dropdown offers shows at least one row, and shows exactly the
\* rows from which that value was collected.
C38_OfferedValueSelectsItsRows ==
  \A col \in Range(FilterableColumns) :
    \A value \in Range(GetUniqueValues(data, col)) :
      (searchTerm = <<>> /\ SelectedValues(col) = {value})
        => /\ filteredData # <<>>
           /\ filteredData = CollectedFrom(data, col, value)

\* ----------------------------------------------------------------- C32
\* The cleaning endpoint may also answer a file with columns and no rows,
\* or with rows and no columns.
WithoutRows(r) == [filename |-> r.file, columns |-> <<"A">>, data |-> <<>>]

WithoutColumns(r) ==
  [filename |-> r.file, columns |-> <<>>,
   data |-> << [batch |-> r.batch, file |-> r.index] >>]

EmptyResults(r) == { WithoutRows(r), WithoutColumns(r) }

CleanedAnswers(r) == {CleanedResult(r)} \cup EmptyResults(r)

\* a cleaned post answers 2xx with the given body:
\* cleanedFileSuccess({ index, result })
CleanedFileAnswer(r, result) ==
  /\ r \in cleanedPending
  /\ cleanedFileResults' = OnFileSuccess(cleanedFileResults, r.index, result)
  /\ cleanedPending' = cleanedPending \ {r}
  /\ UNCHANGED <<selectedCleanedIndex, filesForCleanedRequest, salesforceSubTab,
                 batch, checkedStatsTabActive, analyticsCache, queryVars,
                 storeVars, tableVars, chooserVars>>
  /\ Effect(EffectDue(HasIndex(cleanedFileResults, r.index)
                        /\ r.index = selectedCleanedIndex), AsLeft, posted)

\* The page with a cleaning endpoint that may answer without rows or
\* without columns; the user uploads again once the posts are answered.
EmptyNext ==
  \/ \E files \in PageFileLists :
       cleanedPending = {} /\ analyticsPending = {} /\ UploadFile(files)
  \/ OnCleanedDataTabClick
  \/ OnCheckedStatsTabClick
  \/ \E index \in Indices(cleanedFileResults) : SetCleanedSubTab(index)
  \/ \E r \in cleanedPending :
       \E result \in CleanedAnswers(r) : CleanedFileAnswer(r, result)
  \/ \E req \in analyticsPending :
       \E lineEntry \in LineEntries(AnalyticsResponse(req.data).line) :
         AnalyticsSuccess(req, lineEntry)

EmptySpec == Init /\ [][EmptyNext]_vars

\* query states tried on an empty table
EmptyQueryFilters == { <<>>, [B |-> {<<"x">>}] }

EmptyQuerySorts == { NoColumn, "A" }

\* the table of the slot shows nothing under every query state
RendersNothing(slot) ==
  \A term \in SearchInputs, filters \in EmptyQueryFilters,
     col \in EmptyQuerySorts, dir \in {"asc", "desc"} :
    LET filtered == FilteredData(slot.data, slot.columns, term, filters)
        sorted == SortedData(slot.data, slot.columns, term, filters, col, dir)
    IN  /\ filtered = <<>>
        /\ sorted = <<>>
        /\ \A size \in PagingSizes, idx \in PageIndexInputs :
             LET pages == TotalPages(Len(filtered), size)
                 effective == ClampedPageIndex(pages, idx)
             IN  /\ pages = 0
                 /\ effective = 0
                 /\ PaginatedData(sorted, size, effective) = <<>>
                 /\ PageNumbers(pages, effective) = <<>>

\* C32: an answer without rows or without columns leaves its slot answered
\* with that table and without an error; the table of that slot shows no
\* rows, 0 pages, effective page 0 and no page numbers under every query
\* state; and no analytics request is ever made for rows or columns that
\* are empty.
C32_EmptyResultIsSuccess ==
  [][ /\ \A r \in cleanedPending : \A result \in EmptyResults(r) :
           (CleanedFileAnswer(r, result) /\ HasIndex(cleanedFileResults, r.index))
             => LET slot == Nth(cleanedFileResults', r.index)
                IN  /\ IsSuccess(slot)
                    /\ slot.data = result.data
                    /\ slot.columns = result.columns
                    /\ RendersNothing(slot)
      /\ \A req \in analyticsPending' : req.data # <<>> /\ req.columns # <<>> ]_vars

C32_Witness ==
  /\ checkedStatsTabActive
  /\ Len(cleanedFileResults) = 2
  /\ selectedCleanedIndex = 1
  /\ IsSuccess(cleanedFileResults[1]) /\ cleanedFileResults[1].columns = <<>>
  /\ IsSuccess(cleanedFileResults[2]) /\ cleanedFileResults[2].data = <<>>
  /\ charts = NoCharts
  /\ analyticsPending = {}
  /\ served = "empty"

\* ----------------------------------------------------------------- C33
MAX_FILES == 3

ALLOWED_EXTENSIONS ==
  << <<".", "x", "l", "s", "x">>, <<".", "x", "l", "s">>, <<".", "c", "s", "v">> >>

TooManyFiles == "Maximum 3 files allowed. Please select up to 3 spreadsheets."

NotAllowedFiles == "Only .xlsx, .xls, and .csv files are allowed."

\* File names the user may pick: a.csv, A.XLS, a.txt, and axls (no dot).
ChooserNames ==
  { <<"a", ".", "c", "s", "v">>,
    <<"A", ".", "X", "L", "S">>,
    <<"a", ".", "t", "x", "t">>,
    <<"a", "x", "l", "s">> }

\* Every list of up to MaxChosen names, and four longer ones: three allowed
\* files, two allowed files, two allowed files and one that is not, four
\* allowed files.
MaxChosen == 1

LongFileLists ==
  { << <<"A", ".", "X", "L", "S">>, <<"a", ".", "c", "s", "v">>,
       <<"a", ".", "c", "s", "v">> >>,
    << <<"a", ".", "c", "s", "v">>, <<"A", ".", "X", "L", "S">> >>,
    << <<"a", ".", "c", "s", "v">>, <<"A", ".", "X", "L", "S">>,
       <<"a", ".", "t", "x", "t">> >>,
    << <<"a", ".", "c", "s", "v">>, <<"A", ".", "X", "L", "S">>,
       <<"a", ".", "c", "s", "v">>, <<"A", ".", "X", "L", "S">> >> }

ChooserFileLists ==
  UNION { [1..n -> ChooserNames] : n \in 0..MaxChosen } \cup LongFileLists

\* name.endsWith(ext)
EndsWith(name, ext) ==
  /\ Len(name) >= Len(ext)
  /\ SubSeq(name, Len(name) - Len(ext) + 1, Len(name)) = ext

\* isAllowedFile(file)
IsAllowedFile(name) ==
  \E k \in 1..Len(ALLOWED_EXTENSIONS) :
    EndsWith(ToLowerCase(name), ToLowerCase(ALLOWED_EXTENSIONS[k]))

\* a variant of ValidateFiles that checks the count only
ValidateFilesCountOnly(files) ==
  IF Len(files) > MAX_FILES THEN [valid |-> <<>>, error |-> TooManyFiles]
  ELSE [valid |-> files, error |-> NoError]

\* validateFiles(files)
ValidateFiles(files) ==
  IF Len(files) > MAX_FILES THEN [valid |-> <<>>, error |-> TooManyFiles]
  ELSE IF \E k \in 1..Len(files) : ~IsAllowedFile(files[k])
    THEN [valid |-> <<>>, error |-> NotAllowedFiles]
  ELSE [valid |-> files, error |-> NoError]

\* onFilesChosen(files), called by onFileInputChange and onDrop
OnFilesChosen(files) ==
  LET checked == ValidateFiles(files)
  IN  /\ IF Len(files) = 0
         THEN /\ fileTypeError' = NoError
              /\ UNCHANGED selectedFiles
         ELSE IF checked.error # NoError
         THEN /\ fileTypeError' = checked.error
              /\ selectedFiles' = <<>>
         ELSE /\ fileTypeError' = NoError
              /\ selectedFiles' = Slice(checked.valid, 0, MAX_FILES)
      /\ UNCHANGED <<laneVars, analyticsVars, queryVars, storeVars, tableVars>>

\* removeFile(index)
RemoveFile(index) ==
  LET next == SelectSeq([k \in 1..Len(selectedFiles) |-> <<k - 1, selectedFiles[k]>>],
                        LAMBDA e : e[1] # index)
  IN  /\ selectedFiles' = [k \in 1..Len(next) |-> next[k][2]]
      /\ fileTypeError' = IF Len(next) = 0 THEN NoError ELSE fileTypeError
      /\ UNCHANGED <<laneVars, analyticsVars, queryVars, storeVars, tableVars>>

\* clearAllFiles()
ClearAllFiles ==
  /\ selectedFiles' = <<>>
  /\ fileTypeError' = NoError
  /\ UNCHANGED <<laneVars, analyticsVars, queryVars, storeVars, tableVars>>

\* uploadFile() on the salesforce tab, from the click on
UploadSelectedFiles ==
  LET checked == ValidateFiles(selectedFiles)
  IN  IF Len(selectedFiles) = 0 THEN UNCHANGED vars
      ELSE IF checked.error # NoError
      THEN /\ fileTypeError' = checked.error
           /\ UNCHANGED <<selectedFiles, laneVars, analyticsVars, queryVars,
                          storeVars, tableVars>>
      ELSE UploadFile(checked.valid)

\* The file chooser: pick or drop files, remove one, clear, upload.
ChooserNext ==
  \/ \E files \in ChooserFileLists : OnFilesChosen(files)
  \/ \E index \in 0..MAX_FILES : RemoveFile(index)
  \/ ClearAllFiles
  \/ UploadSelectedFiles

ChooserSpec == Init /\ [][ChooserNext]_vars

\* the name ends in .xlsx, .xls or .csv, letter case ignored
HasSheetExtension(name) ==
  \E ext \in { <<".", "x", "l", "s", "x">>, <<".", "x", "l", "s">>,
               <<".", "c", "s", "v">> } :
    /\ Len(name) >= Len(ext)
    /\ \A k \in 1..Len(ext) : Lower(name[Len(name) - Len(ext) + k]) = ext[k]

PassesValidation(files) ==
  /\ Len(files) <= 3
  /\ \A k \in 1..Len(files) : HasSheetExtension(files[k])

\* C33: a step that starts a batch does so with a list of 1 to 3 files
\* that all end in .xlsx, .xls or .csv, the list that was selected; choosing a list that does not pass validation
\* sets an error message, empties the selection and changes nothing of the
\* store; choosing one that passes makes it the selection, without a message.
C33_BatchOnlyWithValidFiles ==
  [][ /\ batch' # batch =>
           /\ filesForCleanedRequest' = selectedFiles
           /\ filesForCleanedRequest' # <<>>
           /\ PassesValidation(filesForCleanedRequest')
      /\ \A files \in ChooserFileLists :
           (OnFilesChosen(files) /\ files # <<>>) =>
             IF PassesValidation(files)
             THEN selectedFiles' = files /\ fileTypeError' = NoError
             ELSE /\ fileTypeError' # NoError
                  /\ selectedFiles' = <<>>
                  /\ UNCHANGED <<laneVars, analyticsVars, storeVars>> ]_vars

C33_Witness ==
  /\ batch = 1
  /\ filesForCleanedRequest = << <<"A", ".", "X", "L", "S">>, <<"a", ".", "c", "s", "v">> >>
  /\ selectedFiles = <<>>
  /\ fileTypeError = NotAllowedFiles

====
